---- MODULE Spec2Model ----
(***************************************************************************)
(* A model of the conversion and rounding engine of base-formatter         *)
(* (src/src/base-formatter.ts): BaseConverter.calculateExponent,           *)
(* convertIntegerToBase, convertFractionToBase, BaseConverter.encode with   *)
(* its backward rounding pass, and BaseConverter.decode; and of the string  *)
(* layer on top of it: BaseFormatter.byBase, encode, encodeInteger and      *)
(* decode.                                                                  *)
(*                                                                         *)
(* Decimal values are exact rationals [neg, num, den]; digit arrays are     *)
(* sequences of naturals; array indices are the 0-based indices of the      *)
(* source (element i of an array a is a[i+1]).                              *)
(***************************************************************************)
EXTENDS Integers, Sequences, FiniteSets, TLC

VARIABLES converter, op, numberValue, options, props, trace, output,
          encodedValue, decoded, formatter, formatted, text, parsed, session

vars == <<converter, op, numberValue, options, props, trace, output,
          encodedValue, decoded, formatter, formatted, text, parsed, session>>

(***************************************************************************)
(* Bounds of the model.                                                    *)
(***************************************************************************)
MaxBase == 4
MaxIntLen == 1
MaxFracLen == 2
MaxPrecision == 2

(***************************************************************************)
(* The null of the source: the radix sentinel of the working array and the *)
(* unset maximumFractionLength.                                            *)
(***************************************************************************)
Null == -1

Bases == 2..MaxBase

RoundingMode ==
    {"ceil", "floor", "expand", "trunc", "halfCeil", "halfFloor",
     "halfExpand", "halfTrunc", "halfEven", "halfOdd"}

Notation == {"standard", "scientific", "engineering"}

RECURSIVE Pow(_, _)
Pow(b, n) == IF n <= 0 THEN 1 ELSE b * Pow(b, n - 1)

Min(a, b) == IF a <= b THEN a ELSE b

Max(a, b) == IF a >= b THEN a ELSE b

RECURSIVE Reverse(_)
Reverse(s) == IF s = <<>> THEN <<>> ELSE Append(Reverse(Tail(s)), Head(s))

(***************************************************************************)
(* convertIntegerToBase: repeated modulo / floor division, then reverse.   *)
(***************************************************************************)
\* faulty variant: the loop stops at a value equal to the base
RECURSIVE IntegerLoopStrict(_, _, _)
IntegerLoopStrict(value, base, baseVal) ==
    IF value > base
    THEN IntegerLoopStrict(value \div base, base, Append(baseVal, value % base))
    ELSE [value |-> value, baseVal |-> baseVal, index |-> Len(baseVal)]

RECURSIVE IntegerLoop(_, _, _)
IntegerLoop(value, base, baseVal) ==
    IF value >= base
    THEN IntegerLoop(value \div base, base, Append(baseVal, value % base))
    ELSE [value |-> value, baseVal |-> baseVal, index |-> Len(baseVal)]

\* faulty variant: no digit is pushed for the value zero
convertIntegerToBaseNoZero(value, base) ==
    LET r == IntegerLoop(value, base, <<>>)
    IN  Reverse(IF r.value > 0 THEN Append(r.baseVal, r.value) ELSE r.baseVal)

convertIntegerToBase(value, base) ==
    LET r == IntegerLoop(value, base, <<>>)
        pushed == IF r.value > 0 \/ r.index = 0
                  THEN Append(r.baseVal, r.value)
                  ELSE r.baseVal
    IN  Reverse(pushed)

(***************************************************************************)
(* convertFractionToBase: value = num/den in [0,1); at most maximumLength  *)
(* digits, stopping as soon as the remainder is zero.                      *)
(***************************************************************************)
RECURSIVE FractionLoop(_, _, _, _, _, _)
FractionLoop(num, den, base, prec, i, baseVal) ==
    IF i < prec /\ num # 0
    THEN LET scaled == num * base
             baseDigit == scaled \div den
         IN  FractionLoop(scaled - baseDigit * den, den, base, prec, i + 1,
                          Append(baseVal, baseDigit))
    ELSE baseVal

\* faulty variant: no early stop, the digits are padded to the maximum length
convertFractionToBasePadded(num, den, base, maximumLength) ==
    LET r == FractionLoop(num, den, base, maximumLength, 0, <<>>)
    IN  r \o [j \in 1..(maximumLength - Len(r)) |-> 0]

convertFractionToBase(num, den, base, maximumLength) ==
    FractionLoop(num, den, base, maximumLength, 0, <<>>)

(***************************************************************************)
(* The rounding-mode decision functions of the constructor.  halfBase is   *)
(* base/2, so "value compared with halfBase" is "2*value compared with     *)
(* base".  halfEven and halfOdd read the digit left of index i in the      *)
(* working array, stepping over the sentinel; an index before the array    *)
(* reads undefined and falls through to the greaterThan test.              *)
(***************************************************************************)
\* faulty variant: the sentinel is not stepped over
AdjacentIndexNoSentinel(i, values) == i - 1

AdjacentIndex(i, values) ==
    IF i - 1 >= 0 /\ i - 1 < Len(values) /\ values[(i - 1) + 1] = Null
    THEN i - 2
    ELSE i - 1

HasAdjacent(i, values) ==
    LET j == AdjacentIndex(i, values) IN j >= 0 /\ j < Len(values)

AdjacentDigit(i, values) == values[AdjacentIndex(i, values) + 1]

\* value.greaterThanOrEqualTo(halfBase), value.greaterThan(halfBase) and
\* value.equals(halfBase) for halfBase = base / 2
\* faulty variant: halfBase truncated to an integer
AtLeastHalfTruncated(value, base) == value >= base \div 2

AtLeastHalf(value, base) == 2 * value >= base

\* faulty variant: halfBase rounded up to an integer
MoreThanHalfRoundedUp(value, base) == value > (base + 1) \div 2

MoreThanHalf(value, base) == 2 * value > base

EqualsHalf(value, base) == 2 * value = base

Expand(value) == value > 0

\* faulty variant: the sign is ignored
CeilUnsigned(value, isNegative) == value > 0

Ceil(value, isNegative) == ~isNegative /\ value > 0

Floor(value, isNegative) == isNegative /\ value > 0

HalfCeil(value, isNegative, base) ==
    IF ~isNegative THEN AtLeastHalf(value, base) ELSE MoreThanHalf(value, base)

HalfFloor(value, isNegative, base) ==
    IF isNegative THEN AtLeastHalf(value, base) ELSE MoreThanHalf(value, base)

\* faulty variant: the parity test is inverted
HalfEvenInverted(value, i, values, base) ==
    IF 2 * value = base /\ HasAdjacent(i, values)
    THEN AdjacentDigit(i, values) % 2 = 0
    ELSE 2 * value > base

HalfEven(value, i, values, base) ==
    IF EqualsHalf(value, base) /\ HasAdjacent(i, values)
    THEN AdjacentDigit(i, values) % 2 = 1
    ELSE MoreThanHalf(value, base)

HalfOdd(value, i, values, base) ==
    IF EqualsHalf(value, base) /\ HasAdjacent(i, values)
    THEN AdjacentDigit(i, values) % 2 = 0
    ELSE MoreThanHalf(value, base)

roundingModes(mode, value, isNegative, i, values, base) ==
    CASE mode = "expand"     -> Expand(value)
      [] mode = "trunc"      -> FALSE
      [] mode = "ceil"       -> Ceil(value, isNegative)
      [] mode = "floor"      -> Floor(value, isNegative)
      [] mode = "halfExpand" -> AtLeastHalf(value, base)
      [] mode = "halfTrunc"  -> MoreThanHalf(value, base)
      [] mode = "halfCeil"   -> HalfCeil(value, isNegative, base)
      [] mode = "halfFloor"  -> HalfFloor(value, isNegative, base)
      [] mode = "halfEven"   -> HalfEven(value, i, values, base)
      [] mode = "halfOdd"    -> HalfOdd(value, i, values, base)

(***************************************************************************)
(* calculateExponent.  FloorLog(num, den, b) is floor(log_b(num/den)) for   *)
(* num > 0.  The source computes decValue.ln().dividedBy(lnBase).floor()   *)
(* in Decimal arithmetic, which rounds ln(value), ln(base) and the         *)
(* quotient to 20 significant digits, half up (the library's defaults,     *)
(* which the source does not change).  The rounded quotient floors to      *)
(* FloorLog except when value is an exact power b^q and the rounded        *)
(* quotient lands just below q, as for b = 2 and value = 4:                *)
(*     1.3862943611198906188 / 0.69314718055994530942                      *)
(*         = 1.9999999999999999999, floor 1.                               *)
(* LowQuotients lists those <<b, q>>, worked out in 20-digit arithmetic,   *)
(* for the divisors b (base, or base^3 for engineering) of the bases up    *)
(* to 5 and -10 <= q <= 10.                                                *)
(***************************************************************************)
RECURSIVE FloorLog(_, _, _)
FloorLog(num, den, b) ==
    IF num >= den
    THEN IF num >= den * b THEN FloorLog(num, den * b, b) + 1 ELSE 0
    ELSE FloorLog(num * b, den, b) - 1

IsExactPower(num, den, b) ==
    LET q == FloorLog(num, den, b)
    IN  IF q >= 0 THEN num = den * Pow(b, q) ELSE num * Pow(b, -q) = den

LowQuotients ==
    {<<2, -3>>, <<2, 2>>, <<2, 7>>, <<2, 8>>,
     <<4, -9>>, <<4, -8>>, <<4, -7>>, <<4, -6>>, <<4, -5>>, <<4, -4>>,
     <<4, -3>>, <<4, -2>>,
     <<5, -8>>, <<5, 7>>, <<5, 9>>,
     <<8, -6>>, <<8, 4>>, <<8, 5>>, <<8, 8>>, <<8, 9>>,
     <<27, 6>>, <<27, 7>>, <<27, 8>>,
     <<64, -9>>, <<64, -7>>, <<64, -5>>, <<64, -3>>,
     <<125, -7>>, <<125, 3>>, <<125, 8>>}

LnQuotientFloor(num, den, b) ==
    LET q == FloorLog(num, den, b)
    IN  IF IsExactPower(num, den, b) /\ <<b, q>> \in LowQuotients
        THEN q - 1
        ELSE q

calculateExponent(value, isEngineering, base) ==
    IF value.num = 0
    THEN 0
    ELSE LnQuotientFloor(value.num, value.den,
                         IF isEngineering THEN Pow(base, 3) ELSE base)
         * (IF isEngineering THEN 3 ELSE 1)

(***************************************************************************)
(* The backward rounding pass of encode (the for loop over baseVal).  The  *)
(* loop state s carries the loop variables i, baseVal, isRemainder and     *)
(* onlyZeros, and five observations: visited (the indices the loop body    *)
(* ran for, in order), calls (the indices whose digit was passed to the    *)
(* rounding-mode function), decisions (for each such call the index, the   *)
(* value passed and what the function returned), pops (for each            *)
(* baseVal.pop() the index i of the iteration and the length of the array  *)
(* before it) and carryKept (a pending carry was added to a digit at or    *)
(* left of roundingIndex).  c holds the values the loop reads: base,       *)
(* roundingMode, isNegative, roundingIndex and intLength                   *)
(* (baseIntVal.length).                                                    *)
(***************************************************************************)
\* faulty variant: the digit at roundingIndex is rounded as well
IsRoundedInclusive(roundingIndex, i) == roundingIndex <= i

IsRounded(roundingIndex, i) == roundingIndex < i

AddRemainder(value, isRemainder) == IF isRemainder THEN value + 1 ELSE value

\* faulty variant: a digit equal to the base does not carry
RemainderAfterAddStrict(value, isRemainder, base) == isRemainder /\ value > base

RemainderAfterAdd(value, isRemainder, base) == isRemainder /\ value >= base

ZeroIfRemainder(value, isRemainder) == IF isRemainder THEN 0 ELSE value

\* faulty variant: only the discarded digits count as trailing zeros
OnlyZerosAfterDiscardedOnly(onlyZeros, isRounded, value) == isRounded

OnlyZerosAfter(onlyZeros, isRounded, value) ==
    IF isRounded THEN TRUE
    ELSE IF value # 0 THEN FALSE
    ELSE onlyZeros

Pop(baseVal) == SubSeq(baseVal, 1, Len(baseVal) - 1)

RECURSIVE RoundingLoop(_, _)
RoundingLoop(s, c) ==
    IF s.i < 0 THEN s
    ELSE IF s.baseVal[s.i + 1] = Null
    THEN RoundingLoop([s EXCEPT !.i = s.i - 1,
                                !.visited = Append(s.visited, s.i)], c)
    ELSE
        LET isRounded == IsRounded(c.roundingIndex, s.i)
            added == AddRemainder(s.baseVal[s.i + 1], s.isRemainder)
            afterAdd == RemainderAfterAdd(added, s.isRemainder, c.base)
            asked == ~afterAdd /\ isRounded
            decided == asked /\ roundingModes(c.roundingMode, added,
                                               c.isNegative, s.i, s.baseVal,
                                               c.base)
            isRemainder == IF decided THEN TRUE ELSE afterAdd
            value == ZeroIfRemainder(added, isRemainder)
            onlyZeros == OnlyZerosAfter(s.onlyZeros, isRounded, value)
            stored == [s.baseVal EXCEPT ![s.i + 1] = value]
            popped == onlyZeros /\ c.intLength < s.i
            t == [i |-> s.i,
                  baseVal |-> IF popped THEN Pop(stored) ELSE stored,
                  isRemainder |-> isRemainder,
                  onlyZeros |-> onlyZeros,
                  visited |-> Append(s.visited, s.i),
                  calls |-> IF asked THEN Append(s.calls, s.i) ELSE s.calls,
                  decisions |->
                      IF asked
                      THEN Append(s.decisions,
                                  [index |-> s.i, value |-> added,
                                   carry |-> decided])
                      ELSE s.decisions,
                  pops |-> IF popped
                           THEN Append(s.pops, [index |-> s.i,
                                                length |-> Len(stored)])
                           ELSE s.pops,
                  carryKept |-> s.carryKept \/ (s.isRemainder /\ ~isRounded)]
        IN  IF ~popped /\ ~isRemainder
            THEN t
            ELSE RoundingLoop([t EXCEPT !.i = s.i - 1], c)

Unshift(baseVal, isRemainder) ==
    IF isRemainder THEN <<1>> \o baseVal ELSE baseVal

RECURSIVE FindNull(_, _)
FindNull(baseVal, k) ==
    IF k > Len(baseVal) THEN -1
    ELSE IF baseVal[k] = Null THEN k - 1
    ELSE FindNull(baseVal, k + 1)

EveryZero(baseVal) ==
    \A k \in 1..Len(baseVal) : baseVal[k] = Null \/ baseVal[k] = 0

\* faulty variant: the sign of a zero input is cleared as well
ResultSignAnyZero(isNegative, isZero, everyZero) ==
    IF everyZero THEN FALSE ELSE isNegative

ResultSign(isNegative, isZero, everyZero) ==
    IF ~isZero /\ everyZero THEN FALSE ELSE isNegative

(***************************************************************************)
(* BaseConverter.encode.  this is the instance, opts the per-call       *)
(* options as [present |-> the option names given, value |-> their         *)
(* values].  The result holds the merged props, the NumeralOutput and the *)
(* intermediate values of the call.                                        *)
(***************************************************************************)
OptionNames == {"roundingMode", "precision", "maximumFractionLength", "notation"}

MergeProps(this, opts) ==
    [roundingMode |->
        IF "roundingMode" \in opts.present
        THEN opts.value.roundingMode ELSE this.roundingMode,
     precision |->
        IF "precision" \in opts.present
        THEN opts.value.precision ELSE this.precision,
     maximumFractionLength |->
        IF "maximumFractionLength" \in opts.present
        THEN opts.value.maximumFractionLength
        ELSE this.maximumFractionLength,
     notation |->
        IF "notation" \in opts.present
        THEN opts.value.notation ELSE this.notation]

MakeExponential(notation, exponent) == notation # "standard" /\ exponent # 0

\* absVal.dividedBy(Decimal.pow(base, exponent)) as an exact quotient
ExpValue(absVal, base, exponent, makeExponential) ==
    IF ~makeExponential THEN absVal
    ELSE IF exponent >= 0
    THEN [num |-> absVal.num, den |-> absVal.den * Pow(base, exponent)]
    ELSE [num |-> absVal.num * Pow(base, -exponent), den |-> absVal.den]

MaxFractLengthByPrecision(precision, precisionExponent) ==
    IF precisionExponent > 0 THEN precision - precisionExponent ELSE precision

\* faulty variant: maximumFractionLength is ignored
MaxFractionalLengthByPrecisionOnly(maximumFractionLength, maxFractLengthByPrecision) ==
    maxFractLengthByPrecision

MaxFractionalLength(maximumFractionLength, maxFractLengthByPrecision) ==
    IF maximumFractionLength # Null
    THEN Min(maximumFractionLength, maxFractLengthByPrecision)
    ELSE maxFractLengthByPrecision

RoundingIndex(maxFractionalLength, intLength) == maxFractionalLength + intLength

\* faulty variant: one digit beyond the cutoff is generated, not more
FractionMaximumLengthToCutoff(maxFractLengthByPrecision, maxFractionalLength) ==
    Min(maxFractLengthByPrecision, maxFractionalLength + 1)

\* the maximumLength given to convertFractionToBase: the cap of the
\* precision, whatever the cutoff is
FractionMaximumLength(maxFractLengthByPrecision, maxFractionalLength) ==
    maxFractLengthByPrecision

encode(base, this, value, opts) ==
    LET isNegative == value.neg
        absVal == [num |-> value.num, den |-> value.den]
        \* the return value, once the rounding pass has ended in the state loop
        Returned(e, loop) ==
            LET rounded == Unshift(loop.baseVal, loop.isRemainder)
                nullPos == FindNull(rounded, 1)
            IN  [props |-> e.merged,
                 trace |-> [exponent |-> e.exponent,
                            makeExponential |-> e.makeExponential,
                            expValue |-> e.expValue,
                            maxFractLengthByPrecision |->
                                e.maxFractLengthByPrecision,
                            maxFractionalLength |-> e.maxFractionalLength,
                            baseIntVal |-> e.baseIntVal,
                            baseFractVal |-> e.baseFractVal,
                            roundingIndex |-> e.roundingIndex,
                            visited |-> loop.visited,
                            calls |-> loop.calls,
                            decisions |-> loop.decisions,
                            pops |-> loop.pops,
                            integerIterations |-> e.integerIterations,
                            carryKept |-> loop.carryKept,
                            overflow |-> loop.isRemainder],
                 output |-> [isNegative |->
                                 ResultSign(isNegative, value.num = 0,
                                            EveryZero(rounded)),
                             integer |-> SubSeq(rounded, 1, nullPos),
                             fraction |->
                                 SubSeq(rounded, nullPos + 2, Len(rounded)),
                             exponent |-> IF e.makeExponential
                                          THEN e.exponent ELSE 0]]
        \* the rounding pass over the working array of the values e
        Rounded(e) ==
            Returned(e,
                RoundingLoop(
                    [i |-> Len(e.baseVal) - 1, baseVal |-> e.baseVal,
                     isRemainder |-> FALSE, onlyZeros |-> TRUE,
                     visited |-> <<>>, calls |-> <<>>, decisions |-> <<>>,
                     pops |-> <<>>, carryKept |-> FALSE],
                    [base |-> base, roundingMode |-> e.merged.roundingMode,
                     isNegative |-> isNegative,
                     roundingIndex |-> e.roundingIndex,
                     intLength |-> Len(e.baseIntVal)]))
        \* the conversion of the scaled value, from the merged props and the
        \* exponent
        Converted(merged, exponent) ==
            LET makeExponential == MakeExponential(merged.notation, exponent)
                expValue == ExpValue(absVal, base, exponent, makeExponential)
                precisionExponent == IF makeExponential THEN exponent ELSE 0
                maxFractLengthByPrecision ==
                    MaxFractLengthByPrecision(merged.precision,
                                              precisionExponent)
                maxFractionalLength ==
                    MaxFractionalLength(merged.maximumFractionLength,
                                        maxFractLengthByPrecision)
                intVal == expValue.num \div expValue.den
                fractNum == expValue.num - intVal * expValue.den
                baseIntVal == convertIntegerToBase(intVal, base)
                baseFractVal ==
                    convertFractionToBase(
                        fractNum, expValue.den, base,
                        FractionMaximumLength(maxFractLengthByPrecision,
                                              maxFractionalLength))
            IN  Rounded(
                    [merged |-> merged,
                     exponent |-> exponent,
                     makeExponential |-> makeExponential,
                     expValue |-> expValue,
                     maxFractLengthByPrecision |-> maxFractLengthByPrecision,
                     maxFractionalLength |-> maxFractionalLength,
                     baseIntVal |-> baseIntVal,
                     baseFractVal |-> baseFractVal,
                     baseVal |-> baseIntVal \o <<Null>> \o baseFractVal,
                     roundingIndex |->
                         RoundingIndex(maxFractionalLength, Len(baseIntVal)),
                     integerIterations |->
                         IntegerLoop(intVal, base, <<>>).index])
        \* the call, from the merged props
        Merged(merged) ==
            Converted(merged,
                      calculateExponent(absVal,
                                        merged.notation = "engineering", base))
    IN  Merged(MergeProps(this, opts))

(***************************************************************************)
(* BaseConverter.decode: the reduce over integer ++ fraction, the scaling  *)
(* by base^exponent and the sign, in exact rational arithmetic             *)
(* (Math.pow(base, n) is 1/base^-n for negative n).                        *)
(***************************************************************************)
MathPow(base, n) ==
    IF n >= 0 THEN [num |-> Pow(base, n), den |-> 1]
    ELSE [num |-> 1, den |-> Pow(base, -n)]

\* the denominators are powers of one base, so the larger is a common one
RatAdd(a, b) ==
    LET den == Max(a.den, b.den)
    IN  [num |-> a.num * (den \div a.den) + b.num * (den \div b.den),
         den |-> den]

RatTimes(a, b) == [num |-> a.num * b.num, den |-> a.den * b.den]

\* faulty variant: off by one
LargestExponentLength(encoded) == Len(encoded.integer)

LargestExponent(encoded) == Len(encoded.integer) - 1

RECURSIVE Reduce(_, _, _, _, _)
Reduce(digits, base, largestExponent, i, a) ==
    IF i >= Len(digits) THEN a
    ELSE Reduce(digits, base, largestExponent, i + 1,
                RatAdd(a, RatTimes([num |-> digits[i + 1], den |-> 1],
                                   MathPow(base, largestExponent - i))))

decode(base, encoded) ==
    LET sum == Reduce(encoded.integer \o encoded.fraction, base,
                      LargestExponent(encoded), 0, [num |-> 0, den |-> 1])
        scaled == RatTimes(sum, MathPow(base, encoded.exponent))
    IN  [neg |-> encoded.isNegative, num |-> scaled.num, den |-> scaled.den]

\* the number 0 and the field defaults of a BaseConverter
Zero == [neg |-> FALSE, num |-> 0, den |-> 1]

Defaults ==
    [roundingMode |-> "halfExpand", precision |-> MaxPrecision,
     maximumFractionLength |-> Null, notation |-> "standard"]

(***************************************************************************)
(* Strings are sequences of characters.  The String and Array methods the  *)
(* formatter uses, with the 0-based positions of the source.               *)
(***************************************************************************)
StartsWith(s, p) == Len(p) <= Len(s) /\ SubSeq(s, 1, Len(p)) = p

RECURSIVE IndexFrom(_, _, _)
IndexFrom(s, p, i) ==
    IF i + Len(p) > Len(s) THEN -1
    ELSE IF SubSeq(s, i + 1, i + Len(p)) = p THEN i
    ELSE IndexFrom(s, p, i + 1)

\* s.indexOf(p)
IndexOf(s, p) == IndexFrom(s, p, 0)

\* array.indexOf(p) on the array of the characters: only a one-character p
\* can equal an element
ArrayIndexOf(array, p) == IF Len(p) = 1 THEN IndexOf(array, p) ELSE -1

\* s.slice(from) and s.slice(0, to)
SliceFrom(s, from) == SubSeq(s, from + 1, Len(s))

SliceTo(s, to) == SubSeq(s, 1, to)

\* s.replaceAll(p, ''); an empty p leaves s as it is
RECURSIVE ReplaceAll(_, _)
ReplaceAll(s, p) ==
    IF p = <<>> THEN s
    ELSE LET i == IndexOf(s, p)
         IN  IF i < 0 THEN s
             ELSE SliceTo(s, i) \o ReplaceAll(SliceFrom(s, i + Len(p)), p)

IsWhiteSpace(c) == c = " "

RECURSIVE TrimStart(_)
TrimStart(s) ==
    IF s # <<>> /\ IsWhiteSpace(Head(s)) THEN TrimStart(Tail(s)) ELSE s

RECURSIVE TrimEnd(_)
TrimEnd(s) ==
    IF s # <<>> /\ IsWhiteSpace(s[Len(s)])
    THEN TrimEnd(SubSeq(s, 1, Len(s) - 1)) ELSE s

Trim(s) == TrimEnd(TrimStart(s))

\* array.join('') of an array of strings
RECURSIVE Join(_)
Join(array) == IF array = <<>> THEN <<>> ELSE Head(array) \o Join(Tail(array))

(***************************************************************************)
(* BaseFormatter: the option types, the digits of byBase and the fields    *)
(* with their defaults.  useGrouping false and true are written "false"    *)
(* and "true"; a null pad character is NullCharacter.                      *)
(***************************************************************************)
RadixDisplay == {"auto", "always"}

SignDisplay == {"auto", "always", "exceptZero", "negative", "never"}

UseGrouping == {"false", "true", "always", "min2"}

NullCharacter == <<"null">>

numbers == <<"0", "1", "2", "3", "4", "5", "6", "7", "8", "9">>

asciiUppercase ==
    <<"A", "B", "C", "D", "E", "F", "G", "H", "I", "J", "K", "L", "M",
      "N", "O", "P", "Q", "R", "S", "T", "U", "V", "W", "X", "Y", "Z">>

asciiLowercase ==
    <<"a", "b", "c", "d", "e", "f", "g", "h", "i", "j", "k", "l", "m",
      "n", "o", "p", "q", "r", "s", "t", "u", "v", "w", "x", "y", "z">>

allDigits == numbers \o asciiUppercase \o asciiLowercase

FormatterOptionNames ==
    {"radixCharacter", "negativeSign", "positiveSign", "groupingSeparator",
     "groupingLength", "digitSeparator", "scientificNotationCharacter",
     "integerPadCharacter", "fractionPadCharacter", "minimumFractionLength",
     "minimumIntegerLength", "radixDisplay", "signDisplay", "useGrouping"}

FormatterDefaults ==
    [radixCharacter |-> <<".">>, negativeSign |-> <<"-">>,
     positiveSign |-> <<"+">>, groupingSeparator |-> <<",">>,
     groupingLength |-> 3, digitSeparator |-> <<>>,
     scientificNotationCharacter |-> <<"e">>,
     integerPadCharacter |-> NullCharacter,
     fractionPadCharacter |-> NullCharacter,
     minimumFractionLength |-> 0, minimumIntegerLength |-> 0,
     radixDisplay |-> "auto", signDisplay |-> "auto", useGrouping |-> "false"]

\* new BaseFormatter(digits, options) with the converter options given to
\* the BaseConverter it creates
BaseFormatter(digits, baseConverter) ==
    [n \in FormatterOptionNames \cup {"digits", "base", "baseConverter", "baseZero"} |->
        CASE n = "digits" -> digits
          [] n = "base" -> Len(digits)
          [] n = "baseConverter" -> baseConverter
          [] n = "baseZero" -> <<digits[1]>>
          [] OTHER -> FormatterDefaults[n]]

\* byBase for a base within the 62 digits
byBase(base, baseConverter) ==
    BaseFormatter(SubSeq(allDigits, 1, base), baseConverter)

\* {...this, ...options} on the formatter fields
MergeFormatterProps(this, opts) ==
    [n \in FormatterOptionNames |->
        IF n \in opts.present THEN opts.value[n] ELSE this[n]]

(***************************************************************************)
(* BaseFormatter.encode.  The arrays handed to encodeInteger and joined    *)
(* for the fraction hold strings: the digits are mapped through            *)
(* encodeDigit where the array is built, the pad characters are strings    *)
(* already.                                                                *)
(***************************************************************************)
createPadArray(length, character) == [j \in 1..length |-> character]

\* digits[value]; the digits of a numeral are below the base, so the
\* DigitNotFound branch is not taken
encodeDigit(this, value) == <<this.digits[value + 1]>>

EncodeDigits(this, value) == [j \in 1..Len(value) |-> encodeDigit(this, value[j])]

\* the separator pushed before the element at index i of the reversed array
\* faulty variant: the min2 test is dropped
SeparatorAlways(i, length, opts) ==
    IF /\ opts.useGrouping # "false"
       /\ opts.groupingLength # 0
       /\ i % opts.groupingLength = 0
    THEN opts.groupingSeparator
    ELSE opts.digitSeparator

Separator(i, length, opts) ==
    IF /\ opts.useGrouping # "false"
       /\ opts.groupingLength # 0
       /\ i % opts.groupingLength = 0
       /\ (opts.useGrouping # "min2" \/ length > i + 1)
    THEN opts.groupingSeparator
    ELSE opts.digitSeparator

\* the reduce over the reversed array, reversed back and joined: every
\* element but the last is followed by the separator pushed at its index
encodeInteger(value, opts) ==
    LET n == Len(value)
    IN  Join([j \in 1..n |->
                value[j] \o (IF n - j > 0 THEN Separator(n - j, n, opts)
                             ELSE <<>>)])

\* maximumFractionLength ? Math.min(minimum, maximum) : minimum, where null
\* and 0 are both falsy
MinimumFractionLength(minimumFractionLength, maximumFractionLength) ==
    IF maximumFractionLength # Null /\ maximumFractionLength # 0
    THEN Min(minimumFractionLength, maximumFractionLength)
    ELSE minimumFractionLength

\* the operands of the || chain that precedes the conditional operator
ShowSign(signDisplay, signSymbol, isNegative, decVal) ==
    \/ signDisplay = "always" /\ signSymbol # <<>>
    \/ signDisplay = "exceptZero" /\ decVal.num # 0 /\ signSymbol # <<>>
    \/ signDisplay = "negative" /\ decVal.neg /\ decVal.num # 0
                                /\ signSymbol # <<>>
    \/ signDisplay = "auto" /\ isNegative

OutputSignSymbol(formatProps, isNegative, decVal) ==
    LET signSymbol == IF isNegative THEN formatProps.negativeSign
                      ELSE formatProps.positiveSign
    IN  IF ShowSign(formatProps.signDisplay, signSymbol, isNegative, decVal)
        THEN signSymbol ELSE <<>>

\* faulty variant: the notation of the call is passed on
ExponentOptionsKeepingNotation(formatProps, converterProps) ==
    [present |-> FormatterOptionNames \cup OptionNames,
     value |-> [n \in FormatterOptionNames \cup OptionNames |->
                  CASE n = "minimumFractionLength" -> 0
                    [] n = "maximumFractionLength" -> 0
                    [] n = "minimumIntegerLength" -> 0
                    [] n \in OptionNames -> converterProps[n]
                    [] OTHER -> formatProps[n]]]

\* the options of the nested call that encodes the exponent
ExponentOptions(formatProps, converterProps) ==
    [present |-> FormatterOptionNames \cup OptionNames,
     value |-> [n \in FormatterOptionNames \cup OptionNames |->
                  CASE n = "notation" -> "standard"
                    [] n = "minimumFractionLength" -> 0
                    [] n = "maximumFractionLength" -> 0
                    [] n = "minimumIntegerLength" -> 0
                    [] n \in OptionNames -> converterProps[n]
                    [] OTHER -> formatProps[n]]]

ExponentValue(exponent) ==
    [neg |-> exponent < 0,
     num |-> IF exponent < 0 THEN -exponent ELSE exponent, den |-> 1]

\* the formatter properties of a call: {...this, ...options} with the pad
\* characters and the minimumFractionLength set as encode sets them
ResolvedProps(this, merged, converterProps) ==
    [n \in FormatterOptionNames |->
        CASE n = "integerPadCharacter" ->
                IF merged[n] = NullCharacter THEN this.baseZero ELSE merged[n]
          [] n = "fractionPadCharacter" ->
                IF merged[n] = NullCharacter THEN this.baseZero ELSE merged[n]
          [] n = "minimumFractionLength" ->
                MinimumFractionLength(merged[n],
                                      converterProps.maximumFractionLength)
          [] OTHER -> merged[n]]

\* the integer array with its padding
PaddedInteger(this, integer, formatProps) ==
    IF /\ formatProps.minimumIntegerLength # 0
       /\ formatProps.minimumIntegerLength > Len(integer)
    THEN createPadArray(formatProps.minimumIntegerLength - Len(integer),
                        formatProps.integerPadCharacter)
             \o EncodeDigits(this, integer)
    ELSE EncodeDigits(this, integer)

\* the fraction array with its padding
PaddedFraction(this, fraction, formatProps) ==
    IF formatProps.minimumFractionLength > Len(fraction)
    THEN EncodeDigits(this, fraction)
             \o createPadArray(formatProps.minimumFractionLength - Len(fraction),
                               formatProps.fractionPadCharacter)
    ELSE EncodeDigits(this, fraction)

\* the returned string, put together from its parts
ConcatenateParts(r, parts) ==
    [converted |-> r,
     formatted |-> parts,
     text |-> parts.sign
                  \o parts.integer
                  \o (IF parts.fraction # <<>>
                         \/ parts.props.radixDisplay = "always"
                      THEN parts.props.radixCharacter \o parts.fraction
                      ELSE <<>>)
                  \o parts.exponent]

RECURSIVE formatterEncode(_, _, _)

\* the nested call that encodes the exponent, as the sequence of its results:
\* empty when the call is not made
NestedEncode(this, formatProps, converterProps, r) ==
    IF converterProps.notation # "standard" /\ r.output.exponent # 0
    THEN <<formatterEncode(this, ExponentValue(r.output.exponent),
                           ExponentOptions(formatProps, converterProps))>>
    ELSE <<>>

\* the parts of the string, once the nested call has returned; nested keeps
\* what that call was given and what it did: the properties it ran with,
\* the fraction and exponent parts of its string and the number of encode
\* calls under it
PartsWithExponent(this, value, formatProps, r, nested) ==
    ConcatenateParts(r,
        [sign |-> OutputSignSymbol(formatProps, r.output.isNegative, value),
         integer |-> encodeInteger(
                         PaddedInteger(this, r.output.integer, formatProps),
                         formatProps),
         fraction |-> Join(PaddedFraction(this, r.output.fraction,
                                          formatProps)),
         exponent |->
            IF nested # <<>>
            THEN formatProps.scientificNotationCharacter \o nested[1].text
            ELSE <<>>,
         props |-> formatProps,
         nested |->
            [j \in 1..Len(nested) |->
                [notation |-> nested[j].converted.props.notation,
                 maximumFractionLength |->
                     nested[j].converted.props.maximumFractionLength,
                 minimumFractionLength |->
                     nested[j].formatted.props.minimumFractionLength,
                 minimumIntegerLength |->
                     nested[j].formatted.props.minimumIntegerLength,
                 fraction |-> nested[j].formatted.fraction,
                 exponent |-> nested[j].formatted.exponent,
                 calls |-> nested[j].formatted.calls]],
         calls |-> IF nested # <<>> THEN 1 + nested[1].formatted.calls
                   ELSE 1])

\* encode after the properties are merged and baseConverter.encode has
\* returned r
EncodeParts(this, value, formatProps, converterProps, r) ==
    PartsWithExponent(this, value, formatProps, r,
                      NestedEncode(this, formatProps, converterProps, r))

EncodeWithProps(this, value, opts, converterProps) ==
    EncodeParts(this, value,
                ResolvedProps(this, MergeFormatterProps(this, opts),
                              converterProps),
                converterProps,
                encode(this.base, this.baseConverter, value, opts))

formatterEncode(this, value, opts) ==
    EncodeWithProps(this, value, opts, MergeProps(this.baseConverter, opts))

(***************************************************************************)
(* BaseFormatter.decode.  A result is [error, value]: error is TRUE when   *)
(* DigitNotFound was thrown (then no value is returned).  The exponent of  *)
(* the nested call is a number; BaseConverter.decode raises the base to    *)
(* it, which the exact arithmetic here does for an integer of magnitude    *)
(* up to MaxExponent; any other power is the value Unrepresented.          *)
(***************************************************************************)
MaxExponent == 6

Unrepresented == [neg |-> FALSE, num |-> 0, den |-> 0]

NoFormatterOptions ==
    [present |-> {},
     value |-> [n \in FormatterOptionNames \cup OptionNames |->
                  IF n \in OptionNames THEN Defaults[n]
                  ELSE FormatterDefaults[n]]]

\* digits.indexOf(value)
decodeDigit(this, value) == IndexOf(this.digits, <<value>>)

DecodeDigits(this, array) ==
    [j \in 1..Len(array) |-> decodeDigit(this, array[j])]

\* a digit array for which decodeDigit throws
DigitNotFound(array) == \E j \in 1..Len(array) : array[j] < 0

IsInteger(r) == r.den # 0 /\ r.num % r.den = 0

\* baseConverter.decode with the exponent the nested call returned
DecodeNumeral(base, isNegative, integer, fraction, exponent) ==
    IF IsInteger(exponent) /\ exponent.num \div exponent.den <= MaxExponent
    THEN decode(base,
                [isNegative |-> isNegative, integer |-> integer,
                 fraction |-> fraction,
                 exponent |-> IF exponent.neg
                              THEN -(exponent.num \div exponent.den)
                              ELSE exponent.num \div exponent.den])
    ELSE Unrepresented

\* faulty variant: a sign inside the digits is not removed
CleanedValueKeepingSigns(intFractValue, opts) ==
    ReplaceAll(ReplaceAll(intFractValue, opts.groupingSeparator),
               opts.digitSeparator)

CleanedValue(intFractValue, opts) ==
    ReplaceAll(
        ReplaceAll(
            ReplaceAll(
                ReplaceAll(intFractValue, opts.positiveSign),
                opts.negativeSign),
            opts.groupingSeparator),
        opts.digitSeparator)

\* the options the nested call for the exponent is given: none
ExponentDecodeOptions(formatOptions) == NoFormatterOptions

RECURSIVE formatterDecode(_, _, _)
formatterDecode(this, encoded, formatOptions) ==
    LET opts == MergeFormatterProps(this, formatOptions)
        trimmedValue == Trim(encoded)
        isNegative == StartsWith(trimmedValue, opts.negativeSign)
        notationIndex ==
            IndexOf(trimmedValue, opts.scientificNotationCharacter)
        exponent ==
            IF notationIndex >= 0
            THEN formatterDecode(this,
                                 SliceFrom(trimmedValue, notationIndex + 1),
                                 ExponentDecodeOptions(formatOptions))
            ELSE [error |-> FALSE, value |-> Zero]
        intFractValue ==
            IF notationIndex >= 0 THEN SliceTo(trimmedValue, notationIndex)
            ELSE trimmedValue
        valueArray == CleanedValue(intFractValue, opts)
        radixCharIndex == ArrayIndexOf(valueArray, opts.radixCharacter)
        integerArray ==
            IF radixCharIndex >= 0 THEN SliceTo(valueArray, radixCharIndex)
            ELSE valueArray
        fractionArray ==
            IF radixCharIndex >= 0
            THEN SliceFrom(valueArray, radixCharIndex + 1)
            ELSE <<>>
        integer == DecodeDigits(this, integerArray)
        fraction == DecodeDigits(this, fractionArray)
    IN  IF exponent.error \/ DigitNotFound(integer) \/ DigitNotFound(fraction)
        THEN [error |-> TRUE, value |-> Unrepresented]
        ELSE [error |-> FALSE,
              value |-> DecodeNumeral(this.base, isNegative, integer,
                                      fraction, exponent.value)]

(***************************************************************************)
(* The inputs.  A value is a decimal number, so its denominator divides a  *)
(* power of ten: sixteenths (terminating in bases 2 and 4, periodic in     *)
(* base 3), fifths (periodic in bases 2, 3 and 4) and single digits        *)
(* followed by zeros.                                                      *)
(***************************************************************************)
FracDen == Pow(4, MaxFracLen)

Precisions == 1..MaxPrecision

Sixteenths(base) ==
    {[num |-> n, den |-> FracDen] : n \in 0..(Pow(base, MaxIntLen) * FracDen - 1)}

Fifths == {[num |-> n, den |-> 5] : n \in {1, 2, 3, 4, 6, 7, 8, 9}}

RoundNumbers(base) ==
    {[num |-> d * Pow(base, e), den |-> 1] :
        d \in 1..(base - 1), e \in 1..(MaxPrecision + 2)}

Magnitudes(base) == Sixteenths(base) \cup Fifths \cup RoundNumbers(base)

Values(base) ==
    {[neg |-> s, num |-> m.num, den |-> m.den] :
        s \in BOOLEAN, m \in Magnitudes(base)}

NoOptions == [present |-> {}, value |-> Defaults]

Options(precision) ==
    {NoOptions} \cup
    {[present |-> {"roundingMode", "maximumFractionLength", "notation"},
      value |-> [roundingMode |-> m, precision |-> precision,
                 maximumFractionLength |-> k, notation |-> n]] :
        m \in RoundingMode, k \in {Null} \cup 0..MaxFracLen, n \in Notation}

Converters ==
    {[base |-> b, roundingMode |-> "halfExpand", precision |-> p,
      maximumFractionLength |-> Null, notation |-> "standard"] :
        b \in Bases, p \in Precisions}

Digits(base, lo, hi) ==
    UNION {[1..n -> 0..(base - 1)] : n \in lo..hi}

Numerals(base) ==
    [isNegative : BOOLEAN, integer : Digits(base, 1, MaxIntLen + 1),
     fraction : Digits(base, 0, MaxFracLen), exponent : -1..1]

ZeroNumeral ==
    [isNegative |-> FALSE, integer |-> <<0>>, fraction |-> <<>>, exponent |-> 0]

NoTrace == encode(2, Defaults, Zero, NoOptions).trace

(***************************************************************************)
(* The inputs of the formatter.  A formatter is made by byBase with no     *)
(* options, so its converter has the default fields; the bases are those   *)
(* of the converter and SymbolBase, the first base whose digits include    *)
(* the default scientificNotationCharacter.  The per-call options come in  *)
(* families: alternative symbols, sign display, fraction lengths,          *)
(* grouping and exponential notations with minimum lengths.  The strings   *)
(* given to decode are all strings of up to                                *)
(* MaxTextLen characters over some digits, the default symbols, a space    *)
(* and a character that is no digit and no symbol.                         *)
(***************************************************************************)
MaxTextLen == 3

SymbolBase == IndexOf(allDigits, FormatterDefaults.scientificNotationCharacter) + 1

FormatterConverters ==
    {[base |-> b, roundingMode |-> Defaults.roundingMode,
      precision |-> Defaults.precision,
      maximumFractionLength |-> Defaults.maximumFractionLength,
      notation |-> Defaults.notation] : b \in Bases \cup {SymbolBase}}

NoFormatter == byBase(2, [base |-> 2] @@ Defaults)

NoFormatted ==
    [sign |-> <<>>, integer |-> <<>>, fraction |-> <<>>, exponent |-> <<>>,
     props |-> FormatterDefaults, nested |-> <<>>, calls |-> 0]

NoResult == [error |-> FALSE, value |-> Zero]

\* no instance constructed with options, no call made
NoSession ==
    [constructed |-> [base |-> 2, options |-> NoFormatterOptions],
     calls |-> 0, earlier |-> NoFormatterOptions]

\* the options object with the fields of the record given
WithOptions(given) ==
    [present |-> DOMAIN given,
     value |-> [n \in FormatterOptionNames \cup OptionNames |->
                  IF n \in DOMAIN given THEN given[n]
                  ELSE NoFormatterOptions.value[n]]]

AlternativeSymbols ==
    [negativeSign |-> <<"~">>, positiveSign |-> <<"p">>,
     radixCharacter |-> <<";">>, scientificNotationCharacter |-> <<"^">>,
     groupingSeparator |-> <<"'">>, digitSeparator |-> <<"_">>]

SymbolOptions ==
    {WithOptions([n \in names |-> AlternativeSymbols[n]]
                 @@ [notation |-> nt, useGrouping |-> g]) :
        names \in {{n} : n \in DOMAIN AlternativeSymbols}
                    \cup {DOMAIN AlternativeSymbols},
        nt \in Notation, g \in {"false", "true"}}

SignOptions ==
    {WithOptions([signDisplay |-> sd, maximumFractionLength |-> k]) :
        sd \in SignDisplay, k \in {Null, 0}}

FractionOptions ==
    {WithOptions([maximumFractionLength |-> m, minimumFractionLength |-> mn,
                  fractionPadCharacter |-> c, radixDisplay |-> rd]) :
        m \in 0..MaxFracLen, mn \in 0..(MaxFracLen + 1),
        c \in {NullCharacter, <<" ">>}, rd \in RadixDisplay}

GroupingOptions ==
    {WithOptions([useGrouping |-> g, groupingLength |-> gl,
                  minimumIntegerLength |-> mn, digitSeparator |-> ds,
                  integerPadCharacter |-> c]) :
        g \in UseGrouping, gl \in 1..(MaxIntLen + 2),
        mn \in {0, MaxIntLen + 3}, ds \in {<<>>, <<"_">>},
        c \in {NullCharacter, <<" ">>}}

ExponentialOptions ==
    {WithOptions([notation |-> nt, maximumFractionLength |-> m,
                  minimumFractionLength |-> mn, minimumIntegerLength |-> mi,
                  radixDisplay |-> rd]) :
        nt \in {"scientific", "engineering"}, m \in {0, MaxFracLen},
        mn \in {0, MaxFracLen}, mi \in {0, MaxIntLen + 1},
        rd \in RadixDisplay}

FormatterOptions ==
    {NoFormatterOptions} \cup SymbolOptions \cup SignOptions
        \cup FractionOptions \cup GroupingOptions \cup ExponentialOptions

\* the integers of one digit in the base and of two digits with leading 1
SmallIntegers(base) ==
    {[neg |-> s, num |-> n, den |-> 1] :
        s \in BOOLEAN, n \in 0..(2 * base - 1)}

TextCharacters(base) ==
    {allDigits[1], allDigits[2], allDigits[base]}
        \cup {"-", "+", ".", "e", ",", " ", "?"}

Texts(base) ==
    UNION {[1..n -> TextCharacters(base)] : n \in 0..MaxTextLen}

(***************************************************************************)
(* The state machine.  A converter is constructed and one call is made on  *)
(* it: encode of a value (then, possibly, decode of the numeral it         *)
(* returned) or decode of a numeral.  The instance fields are readonly.    *)
(***************************************************************************)
Init ==
    /\ converter \in Converters
    /\ session = NoSession
    /\ formatter = NoFormatter
    /\ formatted = NoFormatted
    /\ text = <<>>
    /\ parsed = NoResult
    /\ props = Defaults
    /\ trace = NoTrace
    /\ output = ZeroNumeral
    /\ decoded = Zero
    /\ \/ /\ op = "callEncode"
          /\ numberValue \in Values(converter.base)
          /\ options \in Options(converter.precision)
          /\ encodedValue = ZeroNumeral
       \/ /\ op = "callDecode"
          /\ numberValue = Zero
          /\ options = NoOptions
          /\ encodedValue \in Numerals(converter.base)

Encode ==
    /\ op = "callEncode"
    /\ LET r == encode(converter.base, converter, numberValue, options)
       IN  /\ props' = r.props
           /\ trace' = r.trace
           /\ output' = r.output
    /\ op' = "encoded"
    /\ UNCHANGED <<converter, numberValue, options, encodedValue, decoded>>
    /\ UNCHANGED <<formatter, formatted, text, parsed, session>>

DecodeOutput ==
    /\ op = "encoded"
    /\ encodedValue' = output
    /\ decoded' = decode(converter.base, output)
    /\ op' = "roundTrip"
    /\ UNCHANGED <<converter, numberValue, options, props, trace, output>>
    /\ UNCHANGED <<formatter, formatted, text, parsed, session>>

Decode ==
    /\ op = "callDecode"
    /\ decoded' = decode(converter.base, encodedValue)
    /\ op' = "decoded"
    /\ UNCHANGED <<converter, numberValue, options, props, trace, output,
                   encodedValue, formatter, formatted, text, parsed, session>>

Next == Encode \/ DecodeOutput \/ Decode

Spec == Init /\ [][Next]_vars

(***************************************************************************)
(* The state machine of the formatter.  A formatter is made by byBase and  *)
(* one call is made on it: encode of a value with per-call options (then,  *)
(* possibly, decode of the string it returned, with the same options) or   *)
(* decode of a string.  converter is the formatter's baseConverter; props, *)
(* trace and output are those of the baseConverter.encode call inside      *)
(* encode; formatted holds the parts the returned string is put together   *)
(* from, the formatter properties of the call, the nested call that        *)
(* encoded the exponent (if one was made) and the number of encode calls.  *)
(***************************************************************************)
FormatterInit ==
    /\ converter \in FormatterConverters
    /\ session = NoSession
    /\ formatter = byBase(converter.base, converter)
    /\ props = Defaults
    /\ trace = NoTrace
    /\ output = ZeroNumeral
    /\ encodedValue = ZeroNumeral
    /\ decoded = Zero
    /\ formatted = NoFormatted
    /\ parsed = NoResult
    /\ \/ /\ op = "callFormatterEncode"
          /\ converter.base \in Bases
          /\ numberValue \in Values(converter.base)
          /\ options \in FormatterOptions
          /\ text = <<>>
       \/ /\ op = "callFormatterEncode"
          /\ converter.base = SymbolBase
          /\ numberValue \in SmallIntegers(converter.base)
          /\ options = NoFormatterOptions
          /\ text = <<>>
       \/ /\ op = "callFormatterDecode"
          /\ converter.base \in Bases
          /\ numberValue = Zero
          /\ options = NoFormatterOptions
          /\ text \in Texts(converter.base)

FormatterEncode ==
    /\ op = "callFormatterEncode"
    /\ \E r \in {formatterEncode(formatter, numberValue, options)} :
           /\ props' = r.converted.props
           /\ trace' = r.converted.trace
           /\ output' = r.converted.output
           /\ formatted' = r.formatted
           /\ text' = r.text
    /\ op' = "formatterEncoded"
    /\ UNCHANGED <<converter, formatter, numberValue, options, encodedValue,
                   decoded, parsed, session>>

FormatterDecodeOutput ==
    /\ op = "formatterEncoded"
    /\ parsed' = formatterDecode(formatter, text, options)
    /\ op' = "formatterRoundTrip"
    /\ UNCHANGED <<converter, formatter, numberValue, options, props, trace,
                   output, encodedValue, decoded, formatted, text, session>>

FormatterDecode ==
    /\ op = "callFormatterDecode"
    /\ parsed' = formatterDecode(formatter, text, options)
    /\ op' = "formatterDecoded"
    /\ UNCHANGED <<converter, formatter, numberValue, options, props, trace,
                   output, encodedValue, decoded, formatted, text, session>>

FormatterNext == FormatterEncode \/ FormatterDecodeOutput \/ FormatterDecode

FormatterSpec == FormatterInit /\ [][FormatterNext]_vars

(***************************************************************************)
(* Several calls on one instance.  A formatter is constructed with         *)
(* options and up to MaxCalls calls of encode and decode are made on it,   *)
(* each with its own per-call options.  A call works on props, the object  *)
(* made by {...this, ...options}: every assignment of encode goes to a     *)
(* field of props and no statement of encode or decode assigns a field of  *)
(* this, whose fields are readonly.  InstanceAfterCall is the instance a   *)
(* call leaves behind.  session holds the arguments the instance was       *)
(* constructed with, the number of calls made and the options of the call  *)
(* before the latest one.                                                  *)
(***************************************************************************)
MaxCalls == 2

\* new BaseConverter(base, options): the field defaults, then
\* Object.assign(this, options)
NewBaseConverter(base, opts) == [base |-> base] @@ MergeProps(Defaults, opts)

\* new BaseFormatter(digits, options)
NewBaseFormatter(digits, opts) ==
    LET made == BaseFormatter(digits, NewBaseConverter(Len(digits), opts))
    IN  [n \in DOMAIN made |->
            IF n \in FormatterOptionNames /\ n \in opts.present
            THEN opts.value[n]
            ELSE made[n]]

Construct(arguments) ==
    NewBaseFormatter(SubSeq(allDigits, 1, arguments.base), arguments.options)

\* faulty variant: props is this itself, the merged fields stay
InstanceAfterCallAliased(this, callProps) ==
    [n \in DOMAIN this |-> IF n \in DOMAIN callProps THEN callProps[n] ELSE this[n]]

InstanceAfterCall(this, callProps) == this

ConstructorOptions ==
    {NoFormatterOptions,
     WithOptions([signDisplay |-> "exceptZero", roundingMode |-> "ceil",
                  maximumFractionLength |-> 1])}

SessionOptions ==
    {NoFormatterOptions,
     WithOptions([signDisplay |-> "always"]),
     WithOptions([negativeSign |-> <<"~">>, radixCharacter |-> <<";">>]),
     WithOptions([maximumFractionLength |-> 0, roundingMode |-> "trunc"]),
     WithOptions([minimumIntegerLength |-> 3, integerPadCharacter |-> <<" ">>]),
     WithOptions([notation |-> "scientific", precision |-> 1])}

SessionValues ==
    {[neg |-> FALSE, num |-> 0, den |-> 1], [neg |-> TRUE, num |-> 3, den |-> 2],
     [neg |-> FALSE, num |-> 5, den |-> 4], [neg |-> TRUE, num |-> 1, den |-> 16]}

SessionTexts ==
    {<<"1">>, <<"-", "1">>, <<"~", "1", "0">>, <<"1", ";", "1">>,
     <<"1", "e", "1">>, <<"1", ".", "1">>}

InSession == op \in {"constructed", "sessionEncoded", "sessionDecoded"}

SessionInit ==
    /\ op = "constructed"
    /\ \E b \in Bases, o \in ConstructorOptions :
          session = [constructed |-> [base |-> b, options |-> o],
                     calls |-> 0, earlier |-> NoFormatterOptions]
    /\ formatter = Construct(session.constructed)
    /\ converter = formatter.baseConverter
    /\ numberValue = Zero
    /\ options = NoFormatterOptions
    /\ props = Defaults
    /\ trace = NoTrace
    /\ output = ZeroNumeral
    /\ encodedValue = ZeroNumeral
    /\ decoded = Zero
    /\ formatted = NoFormatted
    /\ text = <<>>
    /\ parsed = NoResult

SessionEncode ==
    /\ InSession
    /\ session.calls < MaxCalls
    /\ \E value \in SessionValues, opts \in SessionOptions :
        \E r \in {formatterEncode(formatter, value, opts)} :
           /\ numberValue' = value
           /\ options' = opts
           /\ props' = r.converted.props
           /\ trace' = r.converted.trace
           /\ output' = r.converted.output
           /\ formatted' = r.formatted
           /\ text' = r.text
           /\ formatter' =
                [InstanceAfterCall(formatter, r.formatted.props)
                    EXCEPT !.baseConverter =
                        InstanceAfterCall(formatter.baseConverter,
                                          r.converted.props)]
    /\ converter' = formatter'.baseConverter
    /\ session' = [session EXCEPT !.calls = @ + 1, !.earlier = options]
    /\ op' = "sessionEncoded"
    /\ UNCHANGED <<encodedValue, decoded, parsed>>

SessionDecode ==
    /\ InSession
    /\ session.calls < MaxCalls
    /\ \E encoded \in SessionTexts, opts \in SessionOptions :
           /\ text' = encoded
           /\ options' = opts
           /\ parsed' = formatterDecode(formatter, encoded, opts)
           /\ formatter' =
                InstanceAfterCall(formatter, MergeFormatterProps(formatter, opts))
    /\ converter' = formatter'.baseConverter
    /\ session' = [session EXCEPT !.calls = @ + 1, !.earlier = options]
    /\ op' = "sessionDecoded"
    /\ UNCHANGED <<numberValue, props, trace, output, encodedValue, decoded,
                   formatted>>

SessionNext == SessionEncode \/ SessionDecode

SessionSpec == SessionInit /\ [][SessionNext]_vars

(***************************************************************************)
(* The static presets.  A string is the sequence of its code points, which *)
(* is what the constructor's [...digits] makes of a string of digits; the  *)
(* code points outside ASCII are written U+XXXX.  Each preset is made with *)
(* the options given to it, after the options of its own.                  *)
(***************************************************************************)
\* s.replace(p, ''): the first occurrence only
Replace(s, p) ==
    LET i == IndexOf(s, p)
    IN  IF i < 0 THEN s ELSE SliceTo(s, i) \o SliceFrom(s, i + Len(p))

\* {...given, ...options}
SpreadOptions(given, opts) ==
    [present |-> DOMAIN given \cup opts.present,
     value |-> [n \in FormatterOptionNames \cup OptionNames |->
                  IF n \in opts.present THEN opts.value[n]
                  ELSE IF n \in DOMAIN given THEN given[n]
                  ELSE NoFormatterOptions.value[n]]]

\* array.flat() of an array of arrays
RECURSIVE Flat(_)
Flat(arrays) == IF arrays = <<>> THEN <<>> ELSE Head(arrays) \o Flat(Tail(arrays))

vigesimalDigits ==
    numbers \o <<"A", "B", "C", "D", "E", "F", "G", "H", "J", "K">>

base57Digits ==
    Replace(Replace(Replace(Replace(Replace(allDigits, <<"I">>), <<"l">>),
                            <<"1">>), <<"O">>), <<"0">>)

base58Digits ==
    Replace(Replace(Replace(Replace(allDigits, <<"I">>), <<"l">>), <<"O">>),
            <<"0">>)

sexagesimalDigits == Replace(Replace(allDigits, <<"l">>), <<"O">>)

cuneiformOnes ==
    <<"U+1244A", "U+12415", "U+12416", "U+12417", "U+12418", "U+12419",
      "U+1241A", "U+1241B", "U+1241C", "U+1241D">>

\* ['', ...'the five tens signs']: an array of strings
cuneiformTens ==
    << <<>>, <<"U+1230B">>, <<"U+12471">>, <<"U+1230D">>, <<"U+1240F">>,
       <<"U+12410">> >>

\* tens.map(t => ones.map(o => t + o)).flat().join(''): one string
cuneiformDigits ==
    Join(Flat([t \in 1..Len(cuneiformTens) |->
                 [o \in 1..Len(cuneiformOnes) |->
                    cuneiformTens[t] \o <<cuneiformOnes[o]>>]]))

dominoChars ==
    <<"U+1F063", "U+1F064", "U+1F065", "U+1F066", "U+1F067", "U+1F068", "U+1F069",
          "U+1F031", "U+1F032", "U+1F033", "U+1F034", "U+1F035", "U+1F036", "U+1F037">>
        \o <<"U+1F06A", "U+1F06B", "U+1F06C", "U+1F06D", "U+1F06E", "U+1F06F", "U+1F070",
          "U+1F038", "U+1F039", "U+1F03A", "U+1F03B", "U+1F03C", "U+1F03D", "U+1F03E">>
        \o <<"U+1F071", "U+1F072", "U+1F073", "U+1F074", "U+1F075", "U+1F076", "U+1F077",
          "U+1F03F", "U+1F040", "U+1F041", "U+1F042", "U+1F043", "U+1F044", "U+1F045">>
        \o <<"U+1F078", "U+1F079", "U+1F07A", "U+1F07B", "U+1F07C", "U+1F07D", "U+1F07E",
          "U+1F046", "U+1F047", "U+1F048", "U+1F049", "U+1F04A", "U+1F04B", "U+1F04C">>
        \o <<"U+1F07F", "U+1F080", "U+1F081", "U+1F082", "U+1F083", "U+1F084", "U+1F085",
          "U+1F04D", "U+1F04E", "U+1F04F", "U+1F050", "U+1F051", "U+1F052", "U+1F053">>
        \o <<"U+1F086", "U+1F087", "U+1F088", "U+1F089", "U+1F08A", "U+1F08B", "U+1F08C",
          "U+1F054", "U+1F055", "U+1F056", "U+1F057", "U+1F058", "U+1F059", "U+1F05A">>
        \o <<"U+1F08D", "U+1F08E", "U+1F08F", "U+1F090", "U+1F091", "U+1F092", "U+1F093",
          "U+1F05B", "U+1F05C", "U+1F05D", "U+1F05E", "U+1F05F", "U+1F060", "U+1F061">>

Presets ==
    {"binary", "octal", "decimal", "hexadecimal", "dozenal", "dozenalInitials",
     "dozenalRoman", "duodecimal", "vigesimal", "base57", "base58",
     "sexagesimal", "cuneiform", "base62", "domino"}

PresetDigits(preset) ==
    CASE preset = "binary" -> SubSeq(allDigits, 1, 2)
      [] preset = "octal" -> SubSeq(allDigits, 1, 8)
      [] preset = "decimal" -> SubSeq(allDigits, 1, 10)
      [] preset = "hexadecimal" -> SubSeq(allDigits, 1, 16)
      [] preset = "dozenal" -> numbers \o <<"U+218A", "U+218B">>
      [] preset = "dozenalInitials" -> numbers \o <<"T", "E">>
      [] preset = "dozenalRoman" -> numbers \o <<"X", "E">>
      [] preset = "duodecimal" -> SubSeq(allDigits, 1, 12)
      [] preset = "vigesimal" -> vigesimalDigits
      [] preset = "base57" -> base57Digits
      [] preset = "base58" -> base58Digits
      [] preset = "sexagesimal" -> sexagesimalDigits
      [] preset = "cuneiform" -> cuneiformDigits
      [] preset = "base62" -> SubSeq(allDigits, 1, 62)
      [] preset = "domino" -> dominoChars

PresetOptions(preset, opts) ==
    CASE preset \in {"dozenal", "dozenalInitials", "dozenalRoman"} ->
            SpreadOptions([radixCharacter |-> <<";">>], opts)
      [] preset = "cuneiform" ->
            SpreadOptions([radixCharacter |-> <<";">>,
                           integerPadCharacter |-> <<" ">>,
                           fractionPadCharacter |-> <<" ">>], opts)
      [] preset = "domino" ->
            SpreadOptions([radixCharacter |-> <<"U+1F062">>,
                           negativeSign |-> <<"U+1F030">>], opts)
      [] OTHER -> opts

Preset(preset, opts) ==
    NewBaseFormatter(PresetDigits(preset), PresetOptions(preset, opts))

PresetInit ==
    /\ op = "callPreset"
    /\ \E p \in Presets, o \in ConstructorOptions \cup SessionOptions :
          session = [constructed |-> [preset |-> p, options |-> o],
                     calls |-> 0, earlier |-> NoFormatterOptions]
    /\ formatter = NoFormatter
    /\ converter = formatter.baseConverter
    /\ numberValue = Zero
    /\ options = session.constructed.options
    /\ props = Defaults
    /\ trace = NoTrace
    /\ output = ZeroNumeral
    /\ encodedValue = ZeroNumeral
    /\ decoded = Zero
    /\ formatted = NoFormatted
    /\ text = <<>>
    /\ parsed = NoResult

MakePreset ==
    /\ op = "callPreset"
    /\ formatter' = Preset(session.constructed.preset, options)
    /\ converter' = formatter'.baseConverter
    /\ op' = "presetMade"
    /\ UNCHANGED <<numberValue, options, props, trace, output, encodedValue,
                   decoded, formatted, text, parsed, session>>

\* encodeDigit of every digit value of the preset made
PresetEncodeDigit ==
    /\ op \in {"presetMade", "presetDigit"}
    /\ \E d \in 0..(formatter.base - 1) :
          /\ numberValue' = [neg |-> FALSE, num |-> d, den |-> 1]
          /\ text' = encodeDigit(formatter, d)
    /\ op' = "presetDigit"
    /\ UNCHANGED <<converter, formatter, options, props, trace, output,
                   encodedValue, decoded, formatted, parsed, session>>

PresetNext == MakePreset \/ PresetEncodeDigit

PresetSpec == PresetInit /\ [][PresetNext]_vars

(***************************************************************************)
(* encodeDateTime for a format of one run of a numeric token of the date:  *)
(* M, the month, or Q, the quarter.  d is the date shifted to the time     *)
(* zone, of which the token functions read the UTC fields; the model's     *)
(* date is the month index d.getUTCMonth() returns, 0 for January to 11    *)
(* for December.  The callback of format.replace encodes the number the    *)
(* token function returns with minimumIntegerLength set to the length of   *)
(* the run.  session holds the date and the format of the call.            *)
(***************************************************************************)
MaxTokenLength == 3

MonthIndexes == 0..11

DateTokens == {"M", "Q"}

dateTimeTokenFunctions(token, monthIndex) ==
    CASE token = "M" -> monthIndex + 1
      [] token = "Q" -> (monthIndex \div 4) + 1

\* the options of the encode call of the callback, for a token that is
\* neither S nor Z
TokenEncodeOptions(opts, length) ==
    SpreadOptions([n \in opts.present |-> opts.value[n]],
                  WithOptions([minimumIntegerLength |-> length,
                               minimumFractionLength |-> 0,
                               maximumFractionLength |-> Null,
                               signDisplay |-> "auto"]))

DateTimeInit ==
    /\ op = "callEncodeDateTime"
    /\ \E m \in MonthIndexes, t \in DateTokens, l \in 1..MaxTokenLength :
          session = [dateTime |-> [monthIndex |-> m],
                     format |-> [token |-> t, length |-> l]]
    /\ converter \in {c \in FormatterConverters : c.base \in Bases}
    /\ formatter = byBase(converter.base, converter)
    /\ numberValue = Zero
    /\ options \in {NoFormatterOptions, WithOptions([signDisplay |-> "always"])}
    /\ props = Defaults
    /\ trace = NoTrace
    /\ output = ZeroNumeral
    /\ encodedValue = ZeroNumeral
    /\ decoded = Zero
    /\ formatted = NoFormatted
    /\ text = <<>>
    /\ parsed = NoResult

EncodeDateTime ==
    /\ op = "callEncodeDateTime"
    /\ \E tokenOutput \in {dateTimeTokenFunctions(session.format.token,
                                                 session.dateTime.monthIndex)} :
        \E r \in {formatterEncode(
                      formatter,
                      [neg |-> FALSE, num |-> tokenOutput, den |-> 1],
                      TokenEncodeOptions(options, session.format.length))} :
           /\ numberValue' = [neg |-> FALSE, num |-> tokenOutput, den |-> 1]
           /\ props' = r.converted.props
           /\ trace' = r.converted.trace
           /\ output' = r.converted.output
           /\ formatted' = r.formatted
           /\ text' = r.text
    /\ op' = "dateTimeEncoded"
    /\ UNCHANGED <<converter, formatter, options, encodedValue, decoded,
                   parsed, session>>

\* decode of the string encodeDateTime returned
DecodeDateTime ==
    /\ op = "dateTimeEncoded"
    /\ parsed' = formatterDecode(formatter, text, NoFormatterOptions)
    /\ op' = "dateTimeDecoded"
    /\ UNCHANGED <<converter, formatter, numberValue, options, props, trace,
                   output, encodedValue, decoded, formatted, text, session>>

DateTimeNext == EncodeDateTime \/ DecodeDateTime

DateTimeSpec == DateTimeInit /\ [][DateTimeNext]_vars

(***************************************************************************)
(* Observations of the latest encode call, used by the properties.         *)
(* Digit sequences are read as base-B numbers; KeptUnits is the magnitude  *)
(* of the scaled value cut after KeepLen fraction digits, OutUnits the     *)
(* magnitude of the output, both counted in units of the last kept place.  *)
(***************************************************************************)
RECURSIVE DigitsValue(_, _)
DigitsValue(digits, base) ==
    IF digits = <<>> THEN 0
    ELSE DigitsValue(SubSeq(digits, 1, Len(digits) - 1), base) * base
         + digits[Len(digits)]

Zeros(n) == [j \in 1..n |-> 0]

Encoded == op \in {"encoded", "roundTrip"}

HalfModes ==
    {"halfExpand", "halfTrunc", "halfCeil", "halfFloor", "halfEven", "halfOdd"}

KeepLen == trace.maxFractionalLength

CapLen == trace.maxFractLengthByPrecision

KeptUnits ==
    (trace.expValue.num * Pow(converter.base, KeepLen)) \div trace.expValue.den

OutUnitsAt(k) ==
    DigitsValue(output.integer \o output.fraction
                    \o Zeros(k - Len(output.fraction)), converter.base)

OutUnits == OutUnitsAt(KeepLen)

Discarded ==
    SubSeq(trace.baseFractVal, KeepLen + 1, Len(trace.baseFractVal))

\* an encode call with a maximumFractionLength that leaves a fraction place
\* or the units place as the last kept place
Rounding ==
    /\ Encoded
    /\ props.maximumFractionLength # Null
    /\ KeepLen >= 0

(***************************************************************************)
(* C1. Exact ties: in an even base, when exactly one digit is discarded    *)
(* and it equals base/2, one unit is carried into the last kept place      *)
(* exactly when: halfExpand always, halfTrunc never, halfCeil iff the      *)
(* value is not negative, halfFloor iff it is negative, halfEven iff the   *)
(* last kept digit is odd, halfOdd iff it is even (the last kept digit is  *)
(* the units digit when no fraction digit is kept).                        *)
(***************************************************************************)
C1_TieCase ==
    /\ Rounding
    /\ converter.base % 2 = 0
    /\ props.roundingMode \in HalfModes
    /\ Len(Discarded) = 1
    /\ 2 * Discarded[1] = converter.base

C1_TieCarries ==
    CASE props.roundingMode = "halfExpand" -> TRUE
      [] props.roundingMode = "halfTrunc"  -> FALSE
      [] props.roundingMode = "halfCeil"   -> ~numberValue.neg
      [] props.roundingMode = "halfFloor"  -> numberValue.neg
      [] props.roundingMode = "halfEven"   -> (KeptUnits % converter.base) % 2 = 1
      [] props.roundingMode = "halfOdd"    -> (KeptUnits % converter.base) % 2 = 0

C1_ExactTies ==
    C1_TieCase => OutUnits = KeptUnits + (IF C1_TieCarries THEN 1 ELSE 0)

C1_Witness ==
    /\ C1_TieCase
    /\ props.roundingMode = "halfEven"
    /\ KeepLen = 0
    /\ OutUnits = KeptUnits + 1

(***************************************************************************)
(* C2. Below the half-increment.  The statement for any number of          *)
(* discarded digits: in a half mode, when the discarded digits together    *)
(* denote strictly less than half a unit of the last kept place, the kept  *)
(* digits are returned unchanged.                                          *)
(***************************************************************************)
DiscardedBelowHalf ==
    2 * DigitsValue(Discarded, converter.base)
        < Pow(converter.base, Len(Discarded))

DiscardedAboveHalf ==
    2 * DigitsValue(Discarded, converter.base)
        > Pow(converter.base, Len(Discarded))

KeptUnchanged ==
    /\ OutUnits = KeptUnits
    /\ output.integer = trace.baseIntVal

C2_BelowCase ==
    /\ Rounding
    /\ props.roundingMode \in HalfModes
    /\ Len(Discarded) = 1
    /\ DiscardedBelowHalf

C3_AboveCase ==
    /\ Rounding
    /\ props.roundingMode \in HalfModes
    /\ Len(Discarded) = 1
    /\ DiscardedAboveHalf

DirectedModes == {"ceil", "floor", "expand", "trunc"}

Signed(neg, n) == IF neg THEN -n ELSE n

\* r units of size unit, against the magnitude target with sign neg
IsDirectedResult(mode, neg, r, unit, target) ==
    LET sr == Signed(neg, r)
        st == Signed(neg, target)
    IN  CASE mode = "ceil"   -> sr * unit >= st /\ (sr - 1) * unit < st
          [] mode = "floor"  -> sr * unit <= st /\ (sr + 1) * unit > st
          [] mode = "expand" -> r * unit >= target /\ (r - 1) * unit < target
          [] mode = "trunc"  -> r * unit <= target /\ (r + 1) * unit > target

C4_Case ==
    /\ Encoded
    /\ props.notation = "standard"
    /\ props.maximumFractionLength # Null
    /\ props.roundingMode \in DirectedModes

CutUnits ==
    (numberValue.num * Pow(converter.base, CapLen)) \div numberValue.den

IsDigits(digits, base) ==
    \A j \in 1..Len(digits) : digits[j] \in 0..(base - 1)

AllKeptAreMax ==
    KeptUnits + 1 = Pow(converter.base, Len(trace.baseIntVal) + KeepLen)

C5_Case == Rounding /\ trace.carryKept

C5_CarryPropagation ==
    C5_Case =>
        /\ IsDigits(output.integer, converter.base)
        /\ IsDigits(output.fraction, converter.base)
        /\ Len(output.fraction) <= KeepLen
        /\ OutUnits = KeptUnits + 1
        /\ Len(output.integer) =
              Len(trace.baseIntVal) + (IF AllKeptAreMax THEN 1 ELSE 0)
        /\ AllKeptAreMax => output.integer[1] = 1

C5_Witness ==
    /\ C5_Case
    /\ AllKeptAreMax
    /\ KeepLen = 1
    /\ output.integer = <<1, 0>>
    /\ output.fraction = <<>>

(***************************************************************************)
(* C6. Zero-sign normalization: the output is negative exactly when the    *)
(* input is negative and either some output digit is not zero or the       *)
(* input itself is (negative) zero.                                        *)
(***************************************************************************)
OutputAllZero ==
    /\ \A j \in 1..Len(output.integer) : output.integer[j] = 0
    /\ \A j \in 1..Len(output.fraction) : output.fraction[j] = 0

C6_ZeroSign ==
    Encoded =>
        (output.isNegative <=>
            (numberValue.neg /\ (~OutputAllZero \/ numberValue.num = 0)))

C6_Witness ==
    /\ Encoded
    /\ numberValue.neg
    /\ numberValue.num # 0
    /\ OutputAllZero
    /\ ~output.isNegative

(***************************************************************************)
(* C7. NumeralOutput invariant: the integer part is not empty, every       *)
(* integer and fraction digit is in 0..base-1, and the exponent is 0       *)
(* whenever the notation is standard or the value is zero.                 *)
(***************************************************************************)
C7_NumeralOutput ==
    Encoded =>
        /\ Len(output.integer) >= 1
        /\ IsDigits(output.integer, converter.base)
        /\ IsDigits(output.fraction, converter.base)
        /\ (props.notation = "standard" \/ numberValue.num = 0)
                => output.exponent = 0

C7_Witness ==
    /\ Encoded
    /\ trace.overflow
    /\ props.notation = "scientific"
    /\ output.exponent < 0
    /\ Len(output.integer) = 2
    /\ C7_NumeralOutput

(***************************************************************************)
(* C8. Numeral round-trip: with maximumFractionLength unset or not below   *)
(* the precision cap, decode(encode(v)) equals v when the expansion of     *)
(* the scaled value terminates within the cap; otherwise it differs from   *)
(* v by less than one unit of the last emitted digit.                      *)
(***************************************************************************)
RoundTrip ==
    /\ op = "roundTrip"
    /\ \/ props.maximumFractionLength = Null
       \/ props.maximumFractionLength >= CapLen

TerminatesWithinCap ==
    /\ CapLen >= 0
    /\ (trace.expValue.num * Pow(converter.base, CapLen))
            % trace.expValue.den = 0

DecodedEqualsValue ==
    /\ decoded.num * numberValue.den = numberValue.num * decoded.den
    /\ decoded.num # 0 => decoded.neg = numberValue.neg

Abs(n) == IF n < 0 THEN -n ELSE n

\* |decoded - v| < base^(exponent - fraction length), both with the sign of v
DecodedWithinLastUnit ==
    LET shift == output.exponent - Len(output.fraction)
        diff == Abs(decoded.num * numberValue.den
                        - numberValue.num * decoded.den)
        dens == decoded.den * numberValue.den
    IN  /\ decoded.num # 0 => decoded.neg = numberValue.neg
        /\ IF shift >= 0
           THEN diff < Pow(converter.base, shift) * dens
           ELSE diff * Pow(converter.base, -shift) < dens

C8_RoundTrip ==
    RoundTrip =>
        IF TerminatesWithinCap THEN DecodedEqualsValue
        ELSE DecodedWithinLastUnit

\* the calls in which the cutoff falls left of the units digit
C8_IntegerDigitRounded ==
    /\ RoundTrip
    /\ trace.roundingIndex < Len(trace.baseIntVal) - 1

C8_RoundTripElsewhere ==
    (RoundTrip /\ ~C8_IntegerDigitRounded) => C8_RoundTrip

(***************************************************************************)
(* C9. decode returns sign * (the integer and fraction digits read as one  *)
(* base-B number with the radix point after the integer digits)            *)
(* * base^exponent.                                                        *)
(***************************************************************************)
C9_Case == op \in {"decoded", "roundTrip"}

C9_DecodeValue ==
    C9_Case =>
        LET n == DigitsValue(encodedValue.integer \o encodedValue.fraction,
                             converter.base)
            shift == encodedValue.exponent - Len(encodedValue.fraction)
        IN  /\ decoded.neg = encodedValue.isNegative
            /\ IF shift >= 0
               THEN decoded.num = n * Pow(converter.base, shift) * decoded.den
               ELSE decoded.num * Pow(converter.base, -shift) = n * decoded.den

C9_Witness ==
    /\ op = "decoded"
    /\ encodedValue.isNegative
    /\ encodedValue.exponent < 0
    /\ encodedValue.fraction = <<>>
    /\ Len(encodedValue.integer) = 2
    /\ encodedValue.integer[2] # 0
    /\ decoded.num * Pow(converter.base, 1)
            = DigitsValue(encodedValue.integer, converter.base) * decoded.den

(***************************************************************************)
(* C10. Exponent calculation: calculateExponent returns 0 for 0; for       *)
(* v > 0 it returns e with base^e <= v < base^(e+1), or with engineering   *)
(* a multiple of 3 with base^e <= v < base^(e+3).                          *)
(***************************************************************************)
\* base^e <= num/den and num/den < base^e
PowAtMost(base, e, num, den) ==
    IF e >= 0 THEN Pow(base, e) * den <= num ELSE den <= num * Pow(base, -e)

PowAbove(base, e, num, den) ==
    IF e >= 0 THEN num < Pow(base, e) * den ELSE num * Pow(base, -e) < den

C10_Exponent ==
    Encoded =>
        IF numberValue.num = 0 THEN trace.exponent = 0
        ELSE LET step == IF props.notation = "engineering" THEN 3 ELSE 1
             IN  /\ trace.exponent % step = 0
                 /\ PowAtMost(converter.base, trace.exponent,
                              numberValue.num, numberValue.den)
                 /\ PowAbove(converter.base, trace.exponent + step,
                             numberValue.num, numberValue.den)

\* the same for the values that are not an exact power of the divisor base
C10_ExponentOffPowers ==
    (Encoded /\ numberValue.num # 0
        /\ ~IsExactPower(numberValue.num, numberValue.den,
                         IF props.notation = "engineering"
                         THEN Pow(converter.base, 3) ELSE converter.base))
    => C10_Exponent

(***************************************************************************)
(* C11. Scientific notation leaves one integer digit: for a non-zero value *)
(* encoded with notation 'scientific' the integer part is exactly one      *)
(* digit d with 1 <= d < base, also when rounding carries.                 *)
(***************************************************************************)
C11_Case ==
    /\ Encoded
    /\ props.notation = "scientific"
    /\ numberValue.num # 0

C11_OneIntegerDigit ==
    C11_Case =>
        /\ Len(output.integer) = 1
        /\ output.integer[1] >= 1
        /\ output.integer[1] < converter.base

\* the calls in which the carry runs out of the leading digit
C11_CarryOverflow ==
    /\ C11_Case
    /\ trace.overflow
    /\ output.integer = <<1, 0>>

\* the same without a carry out of the leading digit, with the cutoff at or
\* right of the units digit and an exponent that is the floor of the logarithm
C11_OneIntegerDigitElsewhere ==
    (/\ C11_Case
     /\ ~trace.overflow
     /\ trace.roundingIndex >= Len(trace.baseIntVal)
     /\ PowAtMost(converter.base, trace.exponent,
                  numberValue.num, numberValue.den)
     /\ PowAbove(converter.base, trace.exponent + 1,
                 numberValue.num, numberValue.den))
    => C11_OneIntegerDigit

(***************************************************************************)
(* C12. Precision bounds significant digits: the number of digits from the *)
(* first non-zero digit of integer ++ fraction through the last fraction   *)
(* digit never exceeds the precision.                                      *)
(***************************************************************************)
RECURSIVE LeadingZeros(_)
LeadingZeros(digits) ==
    IF digits = <<>> \/ digits[1] # 0 THEN 0
    ELSE 1 + LeadingZeros(Tail(digits))

SignificantDigits ==
    LET all == output.integer \o output.fraction
    IN  Len(all) - LeadingZeros(all)

C12_SignificantDigits ==
    Encoded => SignificantDigits <= props.precision

\* the cap on the fraction alone: the digits counted from the radix point
C12_FractionWithinPrecision ==
    Encoded => Len(output.fraction) <= props.precision

(***************************************************************************)
(* C13. Fraction length cap: the fraction of the output has at most        *)
(* maximumFractionLength digits when that is a non-negative integer, and   *)
(* at most precision digits in every case.                                 *)
(***************************************************************************)
C13_FractionCap ==
    Encoded =>
        /\ Len(output.fraction) <= props.precision
        /\ props.maximumFractionLength # Null =>
               Len(output.fraction) <= props.maximumFractionLength

\* digits were generated beyond maximumFractionLength and the fraction is
\* returned at full permitted length
C13_Witness ==
    /\ Encoded
    /\ props.maximumFractionLength = 1
    /\ props.precision = MaxPrecision
    /\ Len(trace.baseFractVal) = MaxPrecision
    /\ Len(output.fraction) = 1

(***************************************************************************)
(* C14. Truncating, early-terminating fraction expansion: for the fraction *)
(* v of the scaled value, convertFractionToBase emits d_1..d_n with        *)
(* n <= maxLength, d_j = floor(v * base^j) mod base, and n < maxLength     *)
(* exactly when the n digits represent v exactly with no shorter           *)
(* expansion doing so (v = 0 gives no digit).                              *)
(***************************************************************************)
FractNum == trace.expValue.num % trace.expValue.den

ExpansionDigit(j) ==
    ((FractNum * Pow(converter.base, j)) \div trace.expValue.den)
        % converter.base

\* the first n digits represent v exactly
ExactAfter(n) ==
    (FractNum * Pow(converter.base, n)) % trace.expValue.den = 0

C14_FractionExpansion ==
    Encoded =>
        LET n == Len(trace.baseFractVal)
            maxLength == Max(CapLen, 0)
        IN  /\ n <= maxLength
            /\ \A j \in 1..n : trace.baseFractVal[j] = ExpansionDigit(j)
            /\ n < maxLength => ExactAfter(n)
            /\ \A m \in 0..(n - 1) : ~ExactAfter(m)
            /\ FractNum = 0 => n = 0

\* one half in base 2 with room for two digits gives the single digit 1
C14_Witness ==
    /\ Encoded
    /\ converter.base = 2
    /\ CapLen = 2
    /\ 2 * FractNum = trace.expValue.den
    /\ trace.baseFractVal = <<1>>

(***************************************************************************)
(* Observations of the latest formatter call.                              *)
(***************************************************************************)
FormatterEncoded == op \in {"formatterEncoded", "formatterRoundTrip"}

FormatterRoundTrip == op = "formatterRoundTrip"

\* decode returned the number that was encoded
ParsedEqualsValue ==
    /\ ~parsed.error
    /\ parsed.value.den # 0
    /\ parsed.value.num * numberValue.den = numberValue.num * parsed.value.den
    /\ parsed.value.num # 0 => parsed.value.neg = numberValue.neg

(***************************************************************************)
(* C15. String round trip in any base: for a formatter made by byBase(b)   *)
(* with default options and every integer or terminating-fraction value v  *)
(* of either sign, decode(encode(v)) equals v.                             *)
(***************************************************************************)
C15_Case ==
    /\ FormatterRoundTrip
    /\ options = NoFormatterOptions
    /\ TerminatesWithinCap

C15_StringRoundTrip == C15_Case => ParsedEqualsValue

\* the same for the bases whose digits do not include the
\* scientificNotationCharacter
C15_StringRoundTripBelowSymbolBase ==
    (C15_Case /\ converter.base < SymbolBase) => ParsedEqualsValue

\* the digit that is also the scientificNotationCharacter is read as the
\* start of an exponent
C15_SymbolDigit ==
    /\ C15_Case
    /\ converter.base = SymbolBase
    /\ text = FormatterDefaults.scientificNotationCharacter
    /\ numberValue.num = SymbolBase - 1
    /\ ~parsed.error
    /\ parsed.value.num = 0

(***************************************************************************)
(* C16. Decoding with alternative symbols: when the same per-call options  *)
(* with single-character symbols, distinct from the digits and from each   *)
(* other, are passed to both calls, decode(encode(v, o), o) equals v, also *)
(* in scientific or engineering notation with a negative mantissa and a    *)
(* negative exponent.                                                      *)
(***************************************************************************)
C16_Case ==
    /\ FormatterRoundTrip
    /\ options \in SymbolOptions
    /\ TerminatesWithinCap

C16_AlternativeSymbols == C16_Case => ParsedEqualsValue

\* a negative exponent written with the alternative negativeSign
C16_NegativeExponent ==
    /\ C16_Case
    /\ "negativeSign" \in options.present
    /\ numberValue.neg
    /\ output.exponent < 0
    /\ parsed.error

\* the same where the exponent string holds digits only and no integer digit
\* is rounded away
C16_AlternativeSymbolsPlainExponent ==
    (/\ C16_Case
     /\ \A j \in 1..Len(formatted.exponent) :
            j > 1 => formatted.exponent[j] \in
                        {formatter.digits[d] : d \in 1..converter.base}
     /\ trace.roundingIndex >= Len(trace.baseIntVal) - 1)
    => ParsedEqualsValue

(***************************************************************************)
(* C17. DigitNotFound on unknown characters: decode(s) raises              *)
(* DigitNotFound and returns no value whenever, after trimming, splitting  *)
(* off the exponent suffix, removing the sign and separator symbols and    *)
(* splitting at the radix character, a remaining character of the mantissa *)
(* or of the exponent is not a digit, and raises no error when every       *)
(* remaining character is a digit.  The exponent suffix is read by the     *)
(* same routine.                                                           *)
(***************************************************************************)
Range(s) == {s[j] : j \in 1..Len(s)}

IsRemovedSymbol(c) ==
    <<c>> \in {formatter.positiveSign, formatter.negativeSign,
               formatter.groupingSeparator, formatter.digitSeparator}

IsKept(c) == ~IsRemovedSymbol(c)

Least(set) == CHOOSE a \in set : \A b \in set : a <= b

\* the characters that remain of the mantissa and, by the same steps, of the
\* exponent suffix
RECURSIVE RemainingCharacters(_)
RemainingCharacters(s) ==
    LET t == Trim(s)
        marks == {j \in 1..Len(t) :
                     <<t[j]>> = formatter.scientificNotationCharacter}
        mantissa == IF marks = {} THEN t ELSE SubSeq(t, 1, Least(marks) - 1)
        kept == SelectSeq(mantissa, IsKept)
        radixes == {j \in 1..Len(kept) : <<kept[j]>> = formatter.radixCharacter}
        rest == {kept[j] : j \in (1..Len(kept))
                                    \ (IF radixes = {} THEN {}
                                       ELSE {Least(radixes)})}
    IN  rest \cup (IF marks = {} THEN {}
                   ELSE RemainingCharacters(
                            SubSeq(t, Least(marks) + 1, Len(t))))

C17_Case == op = "formatterDecoded"

C17_DigitNotFound ==
    C17_Case =>
        /\ parsed.error
              <=> ~(RemainingCharacters(text) \subseteq Range(formatter.digits))
        /\ parsed.error => parsed.value = Unrepresented

\* an unknown character in the exponent suffix, behind a sign
C17_Witness ==
    /\ C17_Case
    /\ text = <<"e", "-", "?">>
    /\ parsed.error

\* separators, a sign and a radix character between digits raise no error
C17_WitnessNoError ==
    /\ C17_Case
    /\ text = <<"1", ",", ".">>
    /\ ~parsed.error

(***************************************************************************)
(* C18. Sign display table: the sign prefix of BaseFormatter.encode is,    *)
(* for every value, also one that rounds to zero: 'auto' - negativeSign    *)
(* iff the result is negative (negative zero included), else nothing;      *)
(* 'always' - always a sign; 'exceptZero' - negativeSign for negative      *)
(* numbers, positiveSign for positive numbers, nothing for zero;           *)
(* 'negative' - negativeSign for negative numbers, nothing for negative    *)
(* zero and for non-negative numbers, never positiveSign; 'never' -        *)
(* nothing.  "Number" is read as the value given to encode.                *)
(***************************************************************************)
IsNegativeNumber == numberValue.neg /\ numberValue.num # 0

IsPositiveNumber == ~numberValue.neg /\ numberValue.num # 0

SignPrefixOfTable ==
    LET negativeSign == formatted.props.negativeSign
        positiveSign == formatted.props.positiveSign
        signDisplay == formatted.props.signDisplay
    IN  CASE signDisplay = "auto" ->
                IF output.isNegative THEN {negativeSign} ELSE {<<>>}
          [] signDisplay = "always" -> {negativeSign, positiveSign}
          [] signDisplay = "exceptZero" ->
                IF IsNegativeNumber THEN {negativeSign}
                ELSE IF IsPositiveNumber THEN {positiveSign}
                ELSE {<<>>}
          [] signDisplay = "negative" ->
                IF IsNegativeNumber THEN {negativeSign} ELSE {<<>>}
          [] signDisplay = "never" -> {<<>>}

C18_SignDisplayTable ==
    FormatterEncoded =>
        /\ formatted.sign \in SignPrefixOfTable
        /\ StartsWith(text, formatted.sign \o formatted.integer)

\* a negative number that rounds to zero is given the positiveSign
C18_RoundsToZero ==
    /\ FormatterEncoded
    /\ formatted.props.signDisplay = "negative"
    /\ IsNegativeNumber
    /\ OutputAllZero
    /\ text = <<"+", "0">>

\* the same for the calls in which a non-zero value does not round to zero
C18_SignDisplayTableElsewhere ==
    (FormatterEncoded /\ (numberValue.num # 0 => ~OutputAllZero))
    => C18_SignDisplayTable

(***************************************************************************)
(* C19. Formatted fraction length: with maximumFractionLength = m >= 0     *)
(* (0 included) and any minimumFractionLength, encode prints at most m     *)
(* characters after the radix character, and when minimumFractionLength    *)
(* <= m it right-pads the fraction with the fraction pad character to at   *)
(* least minimumFractionLength characters.                                 *)
(***************************************************************************)
\* the characters printed after the digits of the fraction
FractionPadding ==
    SubSeq(formatted.fraction, Len(output.fraction) + 1,
           Len(formatted.fraction))

C19_Case ==
    /\ FormatterEncoded
    /\ "maximumFractionLength" \in options.present
    /\ options.value.maximumFractionLength # Null
    /\ options.value.maximumFractionLength >= 0

C19_FractionLength ==
    C19_Case =>
        LET m == options.value.maximumFractionLength
            minimum ==
                IF "minimumFractionLength" \in options.present
                THEN options.value.minimumFractionLength
                ELSE formatter.minimumFractionLength
            padCharacter ==
                IF formatted.props.fractionPadCharacter = NullCharacter
                THEN formatter.baseZero
                ELSE formatted.props.fractionPadCharacter
        IN  /\ Len(formatted.fraction) <= m
            /\ minimum <= m => Len(formatted.fraction) >= minimum
            /\ \A j \in 1..Len(FractionPadding) :
                   <<FractionPadding[j]>> = padCharacter
            /\ Len(FractionPadding) > 0 =>
                   Len(formatted.fraction) = Min(minimum, m)

\* maximumFractionLength 0 with a larger minimum: the fraction is padded
C19_ZeroMaximum ==
    /\ C19_Case
    /\ options.value.maximumFractionLength = 0
    /\ Len(formatted.fraction) > 0

\* the same for a maximumFractionLength of at least 1
C19_FractionLengthPositiveMaximum ==
    (C19_Case /\ options.value.maximumFractionLength >= 1)
    => C19_FractionLength

(***************************************************************************)
(* C20. Grouping: for an integer part of n characters (padding included)   *)
(* and groupingLength g, with useGrouping true or 'always' a               *)
(* groupingSeparator stands before every character whose place counted     *)
(* from the right end is a positive multiple of g, and a digitSeparator    *)
(* between all other neighbours; with 'min2' the same, except that the     *)
(* separator is the digitSeparator when only one character would remain    *)
(* to its left; with false only the digitSeparator is used.                *)
(***************************************************************************)
\* the characters of the integer part: the padding, then the digits
IntegerCharacters ==
    LET minimum == formatted.props.minimumIntegerLength
        padLength == Max(minimum - Len(output.integer), 0)
    IN  [j \in 1..(padLength + Len(output.integer)) |->
            IF j <= padLength THEN formatted.props.integerPadCharacter
            ELSE <<formatter.digits[output.integer[j - padLength] + 1]>>]

\* the separator between character j and character j + 1 of n
SeparatorOfTable(j, n) ==
    LET g == formatted.props.groupingLength
        useGrouping == formatted.props.useGrouping
        atGroup == (n - j) % g = 0
    IN  IF \/ useGrouping \in {"true", "always"} /\ atGroup
           \/ useGrouping = "min2" /\ atGroup /\ j > 1
        THEN formatted.props.groupingSeparator
        ELSE formatted.props.digitSeparator

RECURSIVE GroupedFrom(_, _)
GroupedFrom(characters, j) ==
    IF j > Len(characters) THEN <<>>
    ELSE characters[j]
         \o (IF j < Len(characters)
             THEN SeparatorOfTable(j, Len(characters)) ELSE <<>>)
         \o GroupedFrom(characters, j + 1)

C20_Grouping ==
    FormatterEncoded =>
        /\ formatted.integer = GroupedFrom(IntegerCharacters, 1)
        /\ StartsWith(text, formatted.sign \o formatted.integer)

\* min2 with one character left of the only group boundary: no
\* groupingSeparator
C20_Witness ==
    /\ FormatterEncoded
    /\ formatted.props.useGrouping = "min2"
    /\ formatted.props.groupingLength = 3
    /\ formatted.props.digitSeparator = <<"_">>
    /\ formatted.props.minimumIntegerLength = 0
    /\ formatted.integer = <<"1", "_", "0", "_", "0", "_", "0">>

\* padding is grouped like digits
C20_WitnessPadding ==
    /\ FormatterEncoded
    /\ formatted.props.useGrouping = "always"
    /\ formatted.props.groupingLength = 2
    /\ formatted.props.digitSeparator = <<>>
    /\ formatted.integer = <<" ", " ", ",", " ", "1">>

(***************************************************************************)
(* C21. Per-call options do not persist: after any sequence of encode and  *)
(* decode calls with per-call options the instance is the one that was     *)
(* constructed, and the latest call returned what the same call returns on *)
(* a freshly constructed instance.                                         *)
(***************************************************************************)
Fresh == Construct(session.constructed)

DocumentedBase(preset) ==
    CASE preset = "binary" -> 2
      [] preset = "octal" -> 8
      [] preset = "decimal" -> 10
      [] preset = "hexadecimal" -> 16
      [] preset \in {"dozenal", "dozenalInitials", "dozenalRoman",
                     "duodecimal"} -> 12
      [] preset = "vigesimal" -> 20
      [] preset = "base57" -> 57
      [] preset = "base58" -> 58
      [] preset \in {"sexagesimal", "cuneiform"} -> 60
      [] preset = "base62" -> 62
      [] preset = "domino" -> 98

PresetMade == op \in {"presetMade", "presetDigit"}

MadePreset == session.constructed.preset

DistinctDigits ==
    \A i, j \in 1..Len(formatter.digits) :
        i # j => formatter.digits[i] # formatter.digits[j]

C22_PresetBases ==
    PresetMade =>
        /\ formatter.base = DocumentedBase(MadePreset)
        /\ DistinctDigits

\* cuneiform() has 110 digits, each sign of the tens among them ten times;
\* the digit of the value 10 is the bare sign of ten
C22_Cuneiform ==
    /\ PresetMade
    /\ MadePreset = "cuneiform"
    /\ formatter.base = 110
    /\ formatter.digits[11] = formatter.digits[13]
    /\ op = "presetDigit"
    /\ numberValue.num = 10
    /\ text = <<"U+1230B">>

C22_PresetBasesExceptCuneiform ==
    PresetMade /\ MadePreset # "cuneiform" =>
        /\ formatter.base = DocumentedBase(MadePreset)
        /\ DistinctDigits

C22_Domino ==
    /\ PresetMade
    /\ MadePreset = "domino"
    /\ formatter.base = 98
    /\ formatter.radixCharacter = <<"U+1F062">>

(***************************************************************************)
(* C23. Quarter token: for a date in any month the Q token of              *)
(* encodeDateTime encodes the calendar quarter of the month: 1 for months  *)
(* 1-3, 2 for months 4-6, 3 for months 7-9 and 4 for months 10-12.         *)
(***************************************************************************)
Month == session.dateTime.monthIndex + 1

CalendarQuarter ==
    CASE Month \in 1..3 -> 1
      [] Month \in 4..6 -> 2
      [] Month \in 7..9 -> 3
      [] Month \in 10..12 -> 4

QuarterEncoded ==
    /\ op \in {"dateTimeEncoded", "dateTimeDecoded"}
    /\ session.format.token = "Q"

EncodesNumber(n) ==
    /\ numberValue = [neg |-> FALSE, num |-> n, den |-> 1]
    /\ DigitsValue(output.integer, converter.base) = n
    /\ output.fraction = <<>>
    /\ op = "dateTimeDecoded" /\ options = NoFormatterOptions =>
          parsed = [error |-> FALSE,
                    value |-> [neg |-> FALSE, num |-> n, den |-> 1]]

C23_QuarterToken == QuarterEncoded => EncodesNumber(CalendarQuarter)

\* the months for which the quotient by 4 and the quotient by 3 agree
C23_QuarterTokenAgreeing ==
    QuarterEncoded /\ Month \in {1, 2, 3, 5, 6, 9} =>
        EncodesNumber(CalendarQuarter)

\* April is encoded as quarter 1, December as quarter 3
C23_April ==
    /\ QuarterEncoded
    /\ Month = 4
    /\ EncodesNumber(1)
    /\ op = "dateTimeDecoded"

C23_December ==
    /\ QuarterEncoded
    /\ Month = 12
    /\ EncodesNumber(3)
    /\ converter.base = 2
    /\ session.format.length = 3
    /\ options = NoFormatterOptions
    /\ text = <<"0", "1", "1">>

(***************************************************************************)
(* C24. Single rounding decision: during one encode call the rounding-mode *)
(* function is evaluated at most once, and only on the first discarded     *)
(* digit, the most significant digit beyond the cutoff.                    *)
(***************************************************************************)
LastIndex == Len(trace.baseIntVal) + Len(trace.baseFractVal)

FirstDiscardedIndex == trace.roundingIndex + 1

DiscardedIndexes == FirstDiscardedIndex..LastIndex

C24_SingleDecision ==
    Encoded =>
        /\ Len(trace.calls) <= 1
        /\ \A k \in 1..Len(trace.calls) : trace.calls[k] = FirstDiscardedIndex

(***************************************************************************)
(* C24, amended.  The rounding-mode function is evaluated on discarded     *)
(* digits only, at most once on each, from the least significant generated *)
(* digit toward the cutoff: first on the last digit of the array when that *)
(* digit is discarded, then on each discarded digit that is reached        *)
(* without a carry out of it.  An evaluation left of the first discarded   *)
(* digit never happens.                                                    *)
(***************************************************************************)
C24_Case == Encoded /\ KeepLen >= 0

C24_DecisionPerDiscardedDigit ==
    C24_Case =>
        /\ \A k \in 1..Len(trace.calls) :
              /\ trace.calls[k] \in DiscardedIndexes
              /\ k > 1 => trace.calls[k] < trace.calls[k - 1]
        /\ DiscardedIndexes # {} =>
              /\ trace.calls # <<>>
              /\ trace.calls[1] = LastIndex

\* two discarded digits, each passed to the function, the first discarded
\* digit last
C24_Witness ==
    /\ C24_Case
    /\ Len(Discarded) = 2
    /\ trace.calls = <<LastIndex, FirstDiscardedIndex>>
    /\ props.roundingMode = "halfExpand"
    /\ OutUnits = KeptUnits + 1
    /\ 2 * Discarded[1] < converter.base

(***************************************************************************)
(* C25. Decision table: each evaluation of the rounding-mode function      *)
(* returns 'carry' as the table states, for the digit passed to it, the    *)
(* sign of the value and adjacentDigit, the nearest kept digit to the left *)
(* of the cutoff.                                                          *)
(***************************************************************************)
DecisionTable(mode, digit, isNegative, adjacentDigit, B) ==
    CASE mode = "expand"     -> digit > 0
      [] mode = "trunc"      -> FALSE
      [] mode = "ceil"       -> ~isNegative /\ digit > 0
      [] mode = "floor"      -> isNegative /\ digit > 0
      [] mode = "halfExpand" -> 2 * digit >= B
      [] mode = "halfTrunc"  -> 2 * digit > B
      [] mode = "halfCeil"   ->
            IF ~isNegative THEN 2 * digit >= B ELSE 2 * digit > B
      [] mode = "halfFloor"  ->
            IF isNegative THEN 2 * digit >= B ELSE 2 * digit > B
      [] mode = "halfEven"   ->
            2 * digit > B \/ (2 * digit = B /\ adjacentDigit % 2 = 1)
      [] mode = "halfOdd"    ->
            2 * digit > B \/ (2 * digit = B /\ adjacentDigit % 2 = 0)

\* the digits before the pass, without the sentinel: the digit at array
\* index i >= 1 right of the sentinel is GeneratedDigits[i]
GeneratedDigits == trace.baseIntVal \o trace.baseFractVal

LastKeptDigit == GeneratedDigits[Len(trace.baseIntVal) + KeepLen]

C25_Case == Encoded /\ KeepLen >= 0

C25_DecisionTable ==
    C25_Case =>
        \A k \in 1..Len(trace.decisions) :
            LET d == trace.decisions[k]
            IN  /\ d.value \in 0..(converter.base - 1)
                /\ d.carry = DecisionTable(props.roundingMode, d.value,
                                           numberValue.neg, LastKeptDigit,
                                           converter.base)

(***************************************************************************)
(* C25, amended.  The same, where adjacentDigit is the digit immediately   *)
(* left of the digit passed (across the radix point when the digit passed  *)
(* is the first fraction digit), as generated, before any rounding.        *)
(***************************************************************************)
LeftNeighbour(index) == GeneratedDigits[index - 1]

C25_DecisionTableLeftNeighbour ==
    C25_Case =>
        \A k \in 1..Len(trace.decisions) :
            LET d == trace.decisions[k]
            IN  /\ d.value \in 0..(converter.base - 1)
                /\ d.carry = DecisionTable(props.roundingMode, d.value,
                                           numberValue.neg,
                                           LeftNeighbour(d.index),
                                           converter.base)

\* a tie on the second discarded digit, decided by the parity of the first
\* discarded digit, which differs from that of the last kept digit
C25_Witness ==
    /\ C25_Case
    /\ props.roundingMode = "halfEven"
    /\ Len(trace.decisions) >= 1
    /\ trace.decisions[1].index = FirstDiscardedIndex + 1
    /\ 2 * trace.decisions[1].value = converter.base
    /\ LeftNeighbour(trace.decisions[1].index) % 2 = 0
    /\ LastKeptDigit % 2 = 1
    /\ ~trace.decisions[1].carry

\* a tie on the first fraction digit with no fraction digit kept, decided
\* by the parity of the units digit
C25_WitnessAcrossRadix ==
    /\ C25_Case
    /\ props.roundingMode = "halfOdd"
    /\ KeepLen = 0
    /\ Len(trace.decisions) = 1
    /\ trace.decisions[1].index = Len(trace.baseIntVal) + 1
    /\ 2 * trace.decisions[1].value = converter.base
    /\ numberValue.neg
    /\ trace.decisions[1].carry

(***************************************************************************)
(* C26. Digit-by-digit rounding: encoding v with maximumFractionLength k   *)
(* gives the same digits as encoding v with maximumFractionLength k + 1    *)
(* and then encoding that rounded value, with the sign of v, with          *)
(* maximumFractionLength k.                                                *)
(***************************************************************************)
WithMaximumFractionLength(opts, k) ==
    [opts EXCEPT !.value.maximumFractionLength = k]

\* the value of the numeral encode returns for numberValue with one more
\* fraction digit, with the sign of numberValue
RoundedOneDigitLonger ==
    [decode(converter.base,
            encode(converter.base, converter, numberValue,
                   WithMaximumFractionLength(
                       options, props.maximumFractionLength + 1)).output)
        EXCEPT !.neg = numberValue.neg]

RoundedAgain ==
    encode(converter.base, converter, RoundedOneDigitLonger, options).output

C26_Case ==
    /\ Encoded
    /\ props.notation = "standard"
    /\ props.maximumFractionLength # Null

NonNegativeMaximumFractionLength ==
    /\ Encoded
    /\ props.maximumFractionLength # Null
    /\ props.maximumFractionLength >= 0

SentinelIndex == Len(trace.baseIntVal)

PopsOnlyFractionDigits ==
    \A k \in 1..Len(trace.pops) :
        /\ trace.pops[k].index > SentinelIndex
        /\ trace.pops[k].length = trace.pops[k].index + 1

C27_NoTrailingZeros ==
    NonNegativeMaximumFractionLength =>
        /\ \/ output.fraction = <<>>
           \/ output.fraction[Len(output.fraction)] # 0
        /\ PopsOnlyFractionDigits
        /\ Len(output.integer)
               = Len(trace.baseIntVal) + (IF trace.overflow THEN 1 ELSE 0)

\* the discarded digits were popped behind a kept digit that took the carry
C27_Witness ==
    /\ NonNegativeMaximumFractionLength
    /\ trace.carryKept
    /\ trace.pops # <<>>
    /\ output.fraction # <<>>
    /\ Len(output.fraction) = KeepLen

\* every fraction digit was popped and the pass stopped at the sentinel
C27_WitnessAtSentinel ==
    /\ NonNegativeMaximumFractionLength
    /\ trace.baseFractVal # <<>>
    /\ Len(trace.pops) = Len(trace.baseFractVal)
    /\ \E k \in 1..Len(trace.pops) :
           trace.pops[k].index <= trace.roundingIndex
    /\ trace.overflow
    /\ output.fraction = <<>>

(***************************************************************************)
(* C28. Rounding mode has no effect at the precision cap: when             *)
(* maximumFractionLength is unset or not smaller than the cap of the       *)
(* precision, encode returns the same output under each of the ten         *)
(* rounding modes, and that output is the expansion of the scaled value    *)
(* truncated at the cap.                                                   *)
(***************************************************************************)
WithRoundingMode(opts, mode) ==
    [present |-> opts.present \cup {"roundingMode"},
     value |-> [opts.value EXCEPT !.roundingMode = mode]]

EncodedWithMode(mode) ==
    encode(converter.base, converter, numberValue,
           WithRoundingMode(options, mode)).output

AtPrecisionCap ==
    /\ Encoded
    /\ \/ props.maximumFractionLength = Null
       \/ props.maximumFractionLength >= CapLen

\* the scaled value in units of the last place the cap allows
CapUnits ==
    IF CapLen >= 0
    THEN (trace.expValue.num * Pow(converter.base, CapLen))
             \div trace.expValue.den
    ELSE trace.expValue.num \div trace.expValue.den

TruncatedExpansion ==
    /\ \A mode \in RoundingMode : EncodedWithMode(mode) = output
    /\ OutUnitsAt(Max(CapLen, 0)) = CapUnits

C28_ModeIndependent == AtPrecisionCap => TruncatedExpansion

\* the same where the cap leaves the units digit of the scaled value in place
C28_ModeIndependentFromUnits ==
    (AtPrecisionCap /\ CapLen >= -1) => TruncatedExpansion

\* an expansion cut off at the cap, with a discarded rest above half a unit
C28_CutOff ==
    /\ AtPrecisionCap
    /\ CapLen >= 0
    /\ Len(trace.baseFractVal) = CapLen
    /\ 2 * (trace.expValue.num * Pow(converter.base, CapLen)
                - CapUnits * trace.expValue.den) > trace.expValue.den
    /\ props.roundingMode = "halfExpand"
    /\ TruncatedExpansion

\* a cap below -1: the units digit of the scaled value is rounded
C28_UnitsRounded ==
    /\ AtPrecisionCap
    /\ CapLen < -1
    /\ props.maximumFractionLength = Null
    /\ props.notation = "scientific"
    /\ props.roundingMode = "halfExpand"
    /\ trace.baseIntVal = <<1>>
    /\ output.integer = <<1, 0>>
    /\ EncodedWithMode("trunc").integer = <<1>>

(***************************************************************************)
(* C29. Exponent suffix recursion depth is one: a call of                  *)
(* BaseFormatter.encode makes at most one nested call of itself; the       *)
(* nested call runs with notation "standard", maximumFractionLength 0 and  *)
(* minimumFractionLength 0, returns no fraction digit and no exponent      *)
(* suffix, and makes no nested call of its own.                            *)
(***************************************************************************)
C29_ExponentRecursionDepthOne ==
    FormatterEncoded =>
        /\ Len(formatted.nested) <= 1
        /\ formatted.calls = 1 + Len(formatted.nested)
        /\ \A j \in 1..Len(formatted.nested) :
               /\ formatted.nested[j].notation = "standard"
               /\ formatted.nested[j].maximumFractionLength = 0
               /\ formatted.nested[j].minimumFractionLength = 0
               /\ formatted.nested[j].fraction = <<>>
               /\ formatted.nested[j].exponent = <<>>
               /\ formatted.nested[j].calls = 1

\* a call in scientific notation that asked for fraction digits and whose
\* exponent, were it encoded in that notation, would have an exponent
C29_Witness ==
    /\ FormatterEncoded
    /\ props.notation = "scientific"
    /\ formatted.props.minimumFractionLength > 0
    /\ formatted.props.minimumIntegerLength > 0
    /\ formatted.props.radixDisplay = "always"
    /\ output.exponent >= converter.base
    /\ formatted.calls = 2
    /\ formatted.exponent # <<>>
    /\ formatted.nested[1].exponent = <<>>

(***************************************************************************)
(* C30. Bounded loops: in every encode call the integer conversion loop    *)
(* runs floor(log_base(integer part)) times, and no time for an integer    *)
(* part below the base; the fraction conversion loop, which pushes one     *)
(* digit per iteration, runs at most as often as the cap of the precision  *)
(* allows; the rounding pass starts at the last index of the working array *)
(* and visits the indices in steps of -1, none below 0, so each at most    *)
(* once.                                                                   *)
(***************************************************************************)
IntegerPart == trace.expValue.num \div trace.expValue.den

LastArrayIndex == Len(trace.baseIntVal) + Len(trace.baseFractVal)

IntegerLoopBound ==
    IF IntegerPart < converter.base
    THEN trace.integerIterations = 0
    ELSE /\ Pow(converter.base, trace.integerIterations) <= IntegerPart
         /\ IntegerPart < Pow(converter.base, trace.integerIterations + 1)

FractionLoopBound == Len(trace.baseFractVal) <= Max(CapLen, 0)

RoundingPassBound ==
    /\ trace.visited # <<>>
    /\ trace.visited[1] = LastArrayIndex
    /\ \A k \in 1..Len(trace.visited) : trace.visited[k] >= 0
    /\ \A k \in 2..Len(trace.visited) :
           trace.visited[k] = trace.visited[k - 1] - 1

C30_BoundedLoops ==
    Encoded =>
        /\ IntegerLoopBound
        /\ FractionLoopBound
        /\ RoundingPassBound

\* the integer loop ran more than once, on a power of the base
C30_Witness ==
    /\ Encoded
    /\ trace.integerIterations >= 2
    /\ IntegerPart = Pow(converter.base, trace.integerIterations)
    /\ Len(trace.baseIntVal) = trace.integerIterations + 1
    /\ Len(trace.visited) >= 2

\* the pass went through the whole array, down to index 0
C30_WitnessWholeArray ==
    /\ Encoded
    /\ LastArrayIndex >= 3
    /\ Len(trace.visited) = LastArrayIndex + 1
    /\ trace.visited[Len(trace.visited)] = 0

\* the fraction loop was stopped by the cap, not by a zero remainder
C30_WitnessFractionAtCap ==
    /\ Encoded
    /\ CapLen > 0
    /\ Len(trace.baseFractVal) = CapLen
    /\ DigitsValue(trace.baseIntVal \o trace.baseFractVal, converter.base)
           * trace.expValue.den
         < trace.expValue.num * Pow(converter.base, CapLen)
    /\ Len(trace.visited) = 1

====
